---- MODULE Spec2Model ----
(***************************************************************************)
(* Memory orchestration of the redis-memory plugin (src/unnamed/part_001): *)
(* the message normaliser, the manual store/forget tools, the summary-view *)
(* manager and the before_agent_start / agent_end hooks, against a backend *)
(* that is an external collaborator.                                        *)
(*                                                                         *)
(* Text is a sequence of tokens; a token is a chunk of characters chosen   *)
(* so that every literal the code searches for is a whole number of        *)
(* tokens.  String.includes is the contiguous-subsequence test.            *)
(* Distances and scores are in hundredths (0.05 is 5, 0.95 is 95).         *)
(***************************************************************************)
EXTENDS Integers, Sequences, FiniteSets, TLC

VARIABLES
  \* ---- message normaliser, exercised alone (NormSpec)
  normInput,        \* the unknown[] handed to convertToMemoryMessages
  normResult,       \* its outcome: [threw, out]
  normPc,           \* "ready" | "done"
  \* ---- plugin registration
  plugin,           \* api.pluginConfig, how far register() got, what it registered
  \* ---- category detection, exercised alone (DetectSpec)
  detected,         \* the text handed to detectCategory and what it returned
  \* ---- process-wide plugin state
  summaryViewId,    \* let summaryViewId: string | null  (0 is null)
  uuidCounter,      \* number of randomUUID() values handed out
  \* ---- backend (external collaborator)
  entries,          \* long-term memory entries: set of [id, text, topic]
  indexed,          \* ids of the entries visible to search
  textDist,         \* the distance the backend's metric puts between two different texts
  views,            \* summary views: set of [id, name]
  summaries,        \* the partitions the backend lists for the configured view
  nextViewId,       \* next id the backend assigns to a created view
  failures,         \* number of backend calls that have failed so far
  deletions,        \* number of views deleted behind the plugin's back
  \* ---- handlers in flight
  task,             \* task slot -> the handler running in it and its locals
  svc,              \* service.start: its position and locals
  \* ---- observations
  toolLog,          \* outcomes of the completed tool calls, oldest first
  viewLog,          \* summary of what the view manager has done
  \* ---- host (external collaborator)
  conv,             \* the turns of the host's session so far
  lastContext,      \* what the latest pre-turn hook returned, and what it had fetched
  wmWrites,         \* working memory: the latest successful write of each session
  now,              \* wall clock (Date.now())
  hookCalls         \* number of hook invocations the host has made

\* what no handler writes: the normaliser and the category detection
\* exercised alone, and the registration
normVars == <<normInput, normResult, normPc, plugin, detected>>
backendVars == <<entries, indexed, textDist, views, summaries, nextViewId, failures, deletions>>
convVars == <<conv, lastContext, wmWrites, now, hookCalls>>
vars == <<normInput, normResult, normPc, plugin, detected, summaryViewId, uuidCounter,
          entries, indexed, textDist, views, summaries, nextViewId, failures, deletions,
          task, svc, toolLog, viewLog, conv, lastContext, wmWrites, now, hookCalls>>

----------------------------------------------------------------------------
(* Bounds *)

MaxLen == 2          \* longest raw turn list handed to the normaliser alone

----------------------------------------------------------------------------
(* Text *)

Null == 0

WS == {" ", "\n"}

\* String.prototype.includes
Includes(s, m) ==
  \E i \in 0..(Len(s) - Len(m)) : SubSeq(s, i + 1, i + Len(m)) = m

\* String.prototype.trim
RECURSIVE TrimLeft(_)
TrimLeft(s) ==
  IF s # <<>> /\ Head(s) \in WS THEN TrimLeft(Tail(s)) ELSE s

RECURSIVE TrimRight(_)
TrimRight(s) ==
  IF s # <<>> /\ s[Len(s)] \in WS THEN TrimRight(SubSeq(s, 1, Len(s) - 1)) ELSE s

Trim(s) == TrimRight(TrimLeft(s))

\* Array.prototype.join(sep) on an array of texts
RECURSIVE Join(_, _)
Join(texts, sep) ==
  IF texts = <<>> THEN <<>>
  ELSE IF Len(texts) = 1 THEN texts[1]
  ELSE texts[1] \o sep \o Join(Tail(texts), sep)

\* the literal of content.includes("<relevant-memories>")
InjectedMarker == <<"<relevant-memories", ">">>

\* the opening tags the pre-turn hook writes
RelevantOpenTag == <<"<relevant-memories", " query-specific=\"true\"", ">">>
SummaryOpenTag == <<"<user-summary", " computed=">>

----------------------------------------------------------------------------
(* Raw conversation turns: the elements of an unknown[] *)

NoText == <<>>

\* detectCategory before it is handed a text
NoDetection == [pc |-> "idle", text |-> NoText, category |-> ""]

\* a role: a string, a number, or missing
StrVal(v) == [t |-> "string", v |-> v]
NumVal == [t |-> "number", v |-> ""]
Undef == [t |-> "undefined", v |-> ""]

\* an id: a string (a number stands for it) or missing
IdVal(n) == [t |-> "string", v |-> n]
NoIdVal == [t |-> "undefined", v |-> 0]

StrContent(s) == [t |-> "string", str |-> s, arr |-> <<>>]
ArrContent(blocks) == [t |-> "array", str |-> NoText, arr |-> blocks]
OtherContent == [t |-> "other", str |-> NoText, arr |-> <<>>]

\* a content block: kind is "object" or "null"; type and text are the fields
TextBlock(s) == [kind |-> "object", type |-> "text", textIsString |-> TRUE, text |-> s]
ImageBlock == [kind |-> "object", type |-> "image", textIsString |-> FALSE, text |-> NoText]
BadTextBlock == [kind |-> "object", type |-> "text", textIsString |-> FALSE, text |-> NoText]
NullBlock == [kind |-> "null", type |-> "", textIsString |-> FALSE, text |-> NoText]

\* timestamp is 0 when absent
Turn(role, content, id, ts) ==
  [kind |-> "object", role |-> role, content |-> content, id |-> id, timestamp |-> ts]

NonObject(kind) ==
  [kind |-> kind, role |-> Undef, content |-> OtherContent, id |-> NoIdVal, timestamp |-> 0]

----------------------------------------------------------------------------
(* Message conversion helpers *)

RECURSIVE BlockTexts(_)
BlockTexts(blocks) ==
  IF blocks = <<>> THEN <<>>
  ELSE LET b == Head(blocks) IN
       (IF b.kind = "object" /\ b.type = "text" /\ b.textIsString
        THEN <<b.text>> ELSE <<>>) \o BlockTexts(Tail(blocks))

extractTextContent(content) ==
  IF content.t = "string" THEN content.str
  ELSE IF content.t = "array" THEN Join(BlockTexts(content.arr), <<"\n">>)
  ELSE NoText

\* randomUUID(): the n-th value handed out; never equal to an id of the host
UuidBase == 100

\* a generator that hands out the same value every time
randomUUIDRepeating(n) == UuidBase

randomUUID(n) == UuidBase + n

\* Date.prototype.toISOString of an epoch value
toISOString(ms) == [iso |-> ms]

\* the !msg test left out: typeof null is "object"
IsObjectOrNull(msg) == msg.kind \in {"object", "null"}

\* msg passes `!msg || typeof msg !== "object"` as an object
IsObject(msg) == msg.kind = "object"

\* reading a property of null or undefined throws a TypeError
PropertyReadThrows(msg) == msg.kind \in {"null", "undefined"}

\* the conditions under which the loop body reaches result.push
Eligible(msg) ==
  /\ IsObject(msg)
  /\ msg.role.t = "string"
  /\ msg.role.v \in {"user", "assistant"}
  /\ Trim(extractTextContent(msg.content)) # <<>>
  /\ ~Includes(extractTextContent(msg.content), InjectedMarker)

\* ConvertStep giving every message a generated id, whatever id the turn has
ConvertStepFreshIds(acc, msg, clock) ==
  IF acc.threw THEN acc
  ELSE IF ~IsObject(msg) THEN acc
  ELSE IF PropertyReadThrows(msg) THEN [acc EXCEPT !.threw = TRUE]
  ELSE IF ~Eligible(msg) THEN acc
  ELSE [threw |-> FALSE,
        out |-> Append(acc.out,
                 [role |-> msg.role.v,
                  content |-> extractTextContent(msg.content),
                  id |-> randomUUID(acc.uuids),
                  created_at |-> toISOString(clock)]),
        uuids |-> acc.uuids + 1]

\* one iteration of the for loop: acc is [threw, out, uuids]
ConvertStep(acc, msg, clock) ==
  IF acc.threw THEN acc
  ELSE IF ~IsObject(msg) THEN acc
  ELSE IF PropertyReadThrows(msg) THEN [acc EXCEPT !.threw = TRUE]
  ELSE IF ~Eligible(msg) THEN acc
  ELSE LET fresh == msg.id.t # "string" IN
       [threw |-> FALSE,
        out |-> Append(acc.out,
                 [role |-> msg.role.v,
                  content |-> extractTextContent(msg.content),
                  id |-> IF fresh THEN randomUUID(acc.uuids) ELSE msg.id.v,
                  created_at |-> toISOString(clock)]),
        uuids |-> IF fresh THEN acc.uuids + 1 ELSE acc.uuids]

RECURSIVE ConvertFrom(_, _, _)
ConvertFrom(acc, messages, clock) ==
  IF messages = <<>> THEN acc
  ELSE ConvertFrom(ConvertStep(acc, Head(messages), clock), Tail(messages), clock)

\* convertToMemoryMessages(messages), run when n UUIDs have been handed out
\* and the clock reads `clock`
convertToMemoryMessages(messages, n, clock) ==
  ConvertFrom([threw |-> FALSE, out |-> <<>>, uuids |-> n], messages, clock)

----------------------------------------------------------------------------
(* The turns the normaliser is exercised on *)

Hello == <<"Hello">>
Blank == <<" ", " ">>
MarkedText == InjectedMarker \o <<"ctx", "</relevant-memories>">>
InjectedText == RelevantOpenTag \o <<"\n", "- ", "fact", "\n", "</relevant-memories>">>

RawTurns ==
  { NonObject("null"), NonObject("undefined"), NonObject("string"),
    Turn(Undef, StrContent(Hello), NoIdVal, 0),
    Turn(NumVal, StrContent(Hello), NoIdVal, 0),
    Turn(StrVal("system"), StrContent(Hello), IdVal(1), 0),
    Turn(StrVal("tool"), StrContent(Hello), NoIdVal, 0),
    Turn(StrVal("user"), StrContent(Hello), IdVal(1), 5),
    Turn(StrVal("user"), StrContent(Hello), NoIdVal, 0),
    Turn(StrVal("assistant"), ArrContent(<<TextBlock(Hello), ImageBlock, TextBlock(<<"there">>)>>), IdVal(2), 0),
    Turn(StrVal("assistant"), ArrContent(<<BadTextBlock, NullBlock>>), IdVal(2), 0),
    Turn(StrVal("user"), StrContent(NoText), IdVal(3), 0),
    Turn(StrVal("user"), StrContent(Blank), IdVal(3), 0),
    Turn(StrVal("user"), OtherContent, IdVal(3), 0),
    Turn(StrVal("user"), StrContent(MarkedText), IdVal(4), 0),
    Turn(StrVal("assistant"), ArrContent(<<TextBlock(Hello), TextBlock(MarkedText)>>), NoIdVal, 0),
    Turn(StrVal("user"), StrContent(InjectedText \o Hello), IdVal(4), 0) }

RECURSIVE SeqsUpTo(_, _)
SeqsUpTo(S, n) ==
  IF n = 0 THEN {<<>>}
  ELSE LET shorter == SeqsUpTo(S, n - 1) IN
       shorter \cup {Append(s, x) : s \in {q \in shorter : Len(q) = n - 1}, x \in S}

----------------------------------------------------------------------------
(* Configuration parsing and register() *)

BoolVal(b) == [t |-> "boolean", v |-> IF b THEN "true" ELSE "false"]

VALID_STRATEGIES == {"discrete", "summary", "preferences", "custom"}

\* api.pluginConfig: null, or an object with the keys that matter to register
RawConfig(strategy, prompt, recall, capture) ==
  [kind |-> "object", extractionStrategy |-> strategy, customPrompt |-> prompt,
   autoRecall |-> recall, autoCapture |-> capture]

NullConfig ==
  [kind |-> "null", extractionStrategy |-> Undef, customPrompt |-> Undef,
   autoRecall |-> Undef, autoCapture |-> Undef]

\* typeof cfg.customPrompt === "string" ? cfg.customPrompt : undefined
CustomPromptOf(value) ==
  IF value.customPrompt.t = "string" THEN value.customPrompt.v ELSE ""

\* parseMemoryConfig with the two strategy validations left out
parseMemoryConfigUnvalidated(value) ==
  IF value.kind # "object"
  THEN [threw |-> TRUE, error |-> "memory config required",
        autoRecall |-> FALSE, autoCapture |-> FALSE, extractionStrategy |-> ""]
  ELSE [threw |-> FALSE, error |-> "",
        autoRecall |-> value.autoRecall # BoolVal(FALSE),
        autoCapture |-> value.autoCapture # BoolVal(FALSE),
        extractionStrategy |-> IF value.extractionStrategy.t = "string"
                               THEN value.extractionStrategy.v ELSE ""]

\* parseMemoryConfig: the checks that throw, in their order, then the parsed
\* fields register() branches on; "" stands for undefined
parseMemoryConfig(value) ==
  LET failed(error) == [threw |-> TRUE, error |-> error,
                        autoRecall |-> FALSE, autoCapture |-> FALSE, extractionStrategy |-> ""]
      strategy == IF value.extractionStrategy.t = "string"
                  THEN value.extractionStrategy.v ELSE "" IN
  IF value.kind # "object" THEN failed("memory config required")
  ELSE IF value.extractionStrategy.t = "string" /\ strategy \notin VALID_STRATEGIES
  THEN failed("Invalid extractionStrategy")
  ELSE IF strategy = "custom" /\ CustomPromptOf(value) = ""
  THEN failed("customPrompt is required")
  ELSE [threw |-> FALSE, error |-> "",
        autoRecall |-> value.autoRecall # BoolVal(FALSE),
        autoCapture |-> value.autoCapture # BoolVal(FALSE),
        extractionStrategy |-> strategy]

Tools == {"memory_recall", "memory_store", "memory_forget"}

\* what register() has registered once it returns
RegistersOf(parsed) ==
  Tools \cup {"redis-memory"}
    \cup (IF parsed.autoRecall THEN {"before_agent_start"} ELSE {})
    \cup (IF parsed.autoCapture THEN {"agent_end"} ELSE {})

\* the plugin before register() is called on it
LoadedPlugin(value) == [pc |-> "loaded", config |-> value, error |-> "", registered |-> {}]

\* register(api): the configuration is parsed first; a throw leaves nothing
\* registered
RegisterResult(value) ==
  LET parsed == parseMemoryConfig(value) IN
  IF parsed.threw
  THEN [pc |-> "threw", config |-> value, error |-> parsed.error, registered |-> {}]
  ELSE [pc |-> "registered", config |-> value, error |-> "", registered |-> RegistersOf(parsed)]

\* the plugin as the other specifications start from: registered with its
\* defaults
RegisteredPlugin == RegisterResult(RawConfig(Undef, Undef, Undef, Undef))

----------------------------------------------------------------------------
(* Bounds of the backend and of the tool calls *)

MaxCalls == 2        \* tool calls begun in one behaviour
MaxFailures == 1     \* backend calls that fail in one behaviour
MaxHooks == 2        \* hook invocations the host makes in one behaviour
MaxDeletions == 1    \* summary views deleted behind the plugin's back
MaxUuids == 2        \* randomUUID() values handed out to captured turns
MaxSlots == 2         \* handlers that can be in flight at once
Slots == 1..MaxSlots

----------------------------------------------------------------------------
(* Backend: long-term memory search (external collaborator) *)

NoDist == -1         \* a hit that carries no dist field

\* distances the backend may put between two different texts
DistValues == {NoDist, 4, 5, 10, 150}

\* texts given to the tools: two memories
TextA == <<"Hello">>
TextB == <<"there">>
ToolTexts == {TextA, TextB}

IndexedEntries == {e \in entries : e.id \in indexed}

RECURSIVE Perms(_)
Perms(S) ==
  IF S = {} THEN {<<>>}
  ELSE UNION {{<<x>> \o p : p \in Perms(S \ {x})} : x \in S}

\* the backend's distance of a visible entry from the query: an entry with
\* the query's own text is at distance 0
DistFrom(q, e) == IF e.text = q THEN 0 ELSE textDist

\* ranked by distance, nearest first; hits without a distance come last
RankKey(d) == IF d = NoDist THEN 1000 ELSE d

Ranked(r, q) ==
  \A i, j \in 1..Len(r) :
    i < j => RankKey(DistFrom(q, r[i])) <= RankKey(DistFrom(q, r[j]))

Hit(e, q) == [id |-> e.id, text |-> e.text, dist |-> DistFrom(q, e)]

\* search(text, limit): the ranked lists the backend may answer with
SearchResults(q, limit) ==
  { [i \in 1..(IF Len(r) < limit THEN Len(r) ELSE limit) |-> Hit(r[i], q)] :
      r \in {p \in Perms(IndexedEntries) : Ranked(p, q)} }

CanFail == failures < MaxFailures

----------------------------------------------------------------------------
(* Scores *)

Max(a, b) == IF a > b THEN a ELSE b

\* m.dist ?? 0
DistOrZero(hit) == IF hit.dist = NoDist THEN 0 ELSE hit.dist

\* the score without the clamp at 0
ScoreUnclamped(hit) == 100 - DistOrZero(hit)

\* Math.max(0, 1 - (m.dist ?? 0))
Score(hit) == Max(0, 100 - DistOrZero(hit))

\* the score field of the mapped results, in their order
Scores(hits) == [i \in 1..Len(hits) |-> Score(hits[i])]

\* the comparison turned round
IsDuplicateFlipped(hits) ==
  Len(hits) > 0 /\ hits[1].dist # NoDist /\ hits[1].dist > 5

\* existing.memories.length > 0 && existing.memories[0].dist < 0.05
\* (undefined < 0.05 is false)
IsDuplicate(hits) ==
  Len(hits) > 0 /\ hits[1].dist # NoDist /\ hits[1].dist < 5

\* the length test left out
AutoDeleteTopHit(hits) ==
  Score(hits[1]) > 90

\* scored.length === 1 && scored[0].score > 0.9
AutoDelete(hits) ==
  Len(hits) = 1 /\ Score(hits[1]) > 90

----------------------------------------------------------------------------
(* Handlers in flight, and the outcomes of the tool calls *)

IdleTask == [kind |-> "idle", pc |-> "idle", text |-> NoText, id |-> 0, arg |-> 0,
             hits |-> <<>>, began |-> 0, solo |-> TRUE,
             view |-> 0, pend |-> 0, parts |-> <<>>, msgs |-> <<>>,
             fetch |-> "none", partitions |-> <<>>,
             session |-> [key |-> "", at |-> 0]]

Busy(t) == task[t].kind # "idle"

\* a handler that begins takes the first slot that is free
FreeSlot(t) == ~Busy(t) /\ \A u \in Slots : u < t => Busy(u)

\* service.start before it is called, and what the view manager has seen
IdleSvc == [pc |-> "stopped", pend |-> 0]
NoConv == [turns |-> <<>>, prompt |-> <<>>, phase |-> "idle"]
NoViewLog == [stale |-> {}, reused |-> FALSE]
NoRecall == [text |-> NoText, prompt |-> NoText, fetch |-> "none", partitions |-> <<>>,
             summary |-> <<>>, search |-> "none", results |-> <<>>, query |-> <<>>,
             searchText |-> NoText]

CallsBegun == Len(toolLog) + Cardinality({t \in Slots : Busy(t)})

\* a handler that begins: it overlaps every handler already in flight
Begin(t, rec) ==
  [u \in Slots |->
     IF u = t THEN [rec EXCEPT !.began = Len(toolLog),
                               !.solo = \A v \in Slots : ~Busy(v)]
     ELSE IF Busy(u) THEN [task[u] EXCEPT !.solo = FALSE]
     ELSE task[u]]

\* the structured outcome (details) of a call, with what the call did, the
\* backend call it ended in and the memoryId it was given
Outcome(t, action, id, created, deleted) ==
  [tool |-> task[t].kind, text |-> task[t].text, action |-> action, id |-> id,
   hits |-> task[t].hits, began |-> task[t].began, solo |-> task[t].solo,
   created |-> created, deleted |-> deleted,
   at |-> task[t].pc, memoryId |-> task[t].arg, scores |-> <<>>,
   count |-> 0, raw |-> <<>>]

Finish(t, action, id, created, deleted) ==
  /\ toolLog' = Append(toolLog, Outcome(t, action, id, created, deleted))
  /\ task' = [task EXCEPT ![t] = IdleTask]

----------------------------------------------------------------------------
(* Backend calls of the tools *)

\* BackendFails without the catch: the call fails and the handler ends with
\* no outcome
BackendFailsUncaught(t) ==
  /\ CanFail
  /\ failures' = failures + 1
  /\ task' = [task EXCEPT ![t] = IdleTask]
  /\ UNCHANGED toolLog

\* a backend call fails (network, 5xx): the handler's catch logs and returns
\* the error outcome
BackendFails(t) ==
  /\ CanFail
  /\ failures' = failures + 1
  /\ Finish(t, "error", 0, {}, {})

\* the backend makes a written entry visible to search some time later
IndexEntry ==
  /\ \E e \in entries : e.id \notin indexed /\ indexed' = indexed \cup {e.id}
  /\ UNCHANGED <<normVars, summaryViewId, uuidCounter, entries, textDist, views, summaries,
                 nextViewId, failures, deletions, task, svc, toolLog, viewLog, convVars>>

toolFrame == <<normVars, summaryViewId, textDist, views, summaries, nextViewId, deletions, svc,
               viewLog, convVars>>

----------------------------------------------------------------------------
(* memory_store.execute *)

\* the text test without the trim
IsEmptyTextUntrimmed(text) == text = NoText

\* !text || !text.trim()
IsEmptyText(text) == text = NoText \/ Trim(text) = NoText

\* entry: parameters destructured, text validated, duplicate search issued
StoreBegin(t, text) ==
  /\ FreeSlot(t)
  /\ CallsBegun < MaxCalls
  /\ LET rec == [IdleTask EXCEPT !.kind = "memory_store", !.text = text, !.pc = "search"] IN
     IF IsEmptyText(text)
     THEN /\ toolLog' = Append(toolLog,
                 [tool |-> "memory_store", text |-> text, action |-> "rejected", id |-> 0,
                  hits |-> <<>>, began |-> Len(toolLog), solo |-> \A v \in Slots : ~Busy(v),
                  created |-> {}, deleted |-> {}, at |-> "idle", memoryId |-> 0,
                  scores |-> <<>>, count |-> 0, raw |-> <<>>])
          /\ task' = [u \in Slots |-> IF Busy(u) THEN [task[u] EXCEPT !.solo = FALSE] ELSE task[u]]
     ELSE /\ task' = Begin(t, rec)
          /\ UNCHANGED toolLog
  /\ UNCHANGED <<toolFrame, uuidCounter, entries, indexed, failures>>

\* the duplicate search answers: duplicate, or a fresh id and the create call
StoreSearch(t) ==
  /\ task[t].kind = "memory_store" /\ task[t].pc = "search"
  /\ \/ BackendFails(t) /\ UNCHANGED uuidCounter
     \/ \E existing \in SearchResults(task[t].text, 1) :
          IF IsDuplicate(existing)
          THEN /\ toolLog' = Append(toolLog,
                      [Outcome(t, "duplicate", existing[1].id, {}, {}) EXCEPT !.hits = existing])
               /\ task' = [task EXCEPT ![t] = IdleTask]
               /\ UNCHANGED <<uuidCounter, failures>>
          ELSE /\ task' = [task EXCEPT ![t].pc = "create", ![t].hits = existing,
                                       ![t].id = randomUUID(uuidCounter)]
               /\ uuidCounter' = uuidCounter + 1
               /\ UNCHANGED <<toolLog, failures>>
  /\ UNCHANGED <<toolFrame, entries, indexed>>

\* StoreCreate writing a second tag beside the category
StoreCreateTwoTags(t, category) ==
  /\ task[t].kind = "memory_store" /\ task[t].pc = "create"
  /\ \/ BackendFails(t) /\ UNCHANGED entries
     \/ /\ entries' = entries \cup {[id |-> task[t].id, text |-> task[t].text,
                                      topics |-> <<category, "fact">>]}
        /\ Finish(t, "created", task[t].id, {task[t].id}, {})
        /\ UNCHANGED failures
  /\ UNCHANGED <<toolFrame, uuidCounter, indexed>>

\* createLongTermMemory answers; category defaults to "other"
StoreCreate(t, category) ==
  /\ task[t].kind = "memory_store" /\ task[t].pc = "create"
  /\ \/ BackendFails(t) /\ UNCHANGED entries
     \/ /\ entries' = entries \cup {[id |-> task[t].id, text |-> task[t].text, topics |-> <<category>>]}
        /\ Finish(t, "created", task[t].id, {task[t].id}, {})
        /\ UNCHANGED failures
  /\ UNCHANGED <<toolFrame, uuidCounter, indexed>>

----------------------------------------------------------------------------
(* memory_forget.execute *)

NoId == 0

\* the DELETE sent without its memory_ids parameter
DeleteEntryUnfiltered(id) ==
  /\ entries' = {}
  /\ indexed' = {}

\* DELETE /v1/long-term-memory?memory_ids=id, applied by the backend
DeleteEntry(id) ==
  /\ entries' = {e \in entries : e.id # id}
  /\ indexed' = indexed \ {id}

\* the query test taken as always passing
QueryGivenAlways(query) == TRUE

\* if (query): the empty string is no query
QueryGiven(query) == query # NoText

\* entry: by id, by query, or neither
ForgetEntry(t, memoryId, query) ==
  /\ FreeSlot(t)
  /\ CallsBegun < MaxCalls
  /\ LET rec == [IdleTask EXCEPT !.kind = "memory_forget", !.text = query, !.id = memoryId,
                                !.arg = memoryId] IN
     IF memoryId # NoId
     THEN task' = Begin(t, [rec EXCEPT !.pc = "deleteById"]) /\ UNCHANGED toolLog
     ELSE IF QueryGiven(query)
     THEN task' = Begin(t, [rec EXCEPT !.pc = "search"]) /\ UNCHANGED toolLog
     ELSE /\ toolLog' = Append(toolLog,
                 [tool |-> "memory_forget", text |-> query, action |-> "missing_param", id |-> 0,
                  hits |-> <<>>, began |-> Len(toolLog), solo |-> \A v \in Slots : ~Busy(v),
                  created |-> {}, deleted |-> {}, at |-> "idle", memoryId |-> 0,
                  scores |-> <<>>, count |-> 0, raw |-> <<>>])
          /\ task' = [u \in Slots |-> IF Busy(u) THEN [task[u] EXCEPT !.solo = FALSE] ELSE task[u]]
  /\ UNCHANGED <<toolFrame, uuidCounter, entries, indexed, failures>>

ForgetBegin(t) ==
  \E memoryId \in {NoId} \cup {e.id : e \in entries}, query \in {NoText, TextA, TextB} :
    ForgetEntry(t, memoryId, query)

\* ForgetDelete without the `!deleteRes.ok` test: a rejected delete is
\* reported as done
ForgetDeleteIgnoresStatus(t) ==
  /\ task[t].kind = "memory_forget" /\ task[t].pc \in {"deleteById", "deleteMatch"}
  /\ \/ /\ CanFail
        /\ failures' = failures + 1
        /\ Finish(t, "deleted", task[t].id, {}, {})
        /\ UNCHANGED <<entries, indexed>>
     \/ /\ DeleteEntry(task[t].id)
        /\ Finish(t, "deleted", task[t].id, {}, {task[t].id})
        /\ UNCHANGED failures
  /\ UNCHANGED <<toolFrame, uuidCounter>>

\* the delete of the supplied id or of the single match answers
ForgetDelete(t) ==
  /\ task[t].kind = "memory_forget" /\ task[t].pc \in {"deleteById", "deleteMatch"}
  /\ \/ BackendFails(t) /\ UNCHANGED <<entries, indexed>>
     \/ /\ DeleteEntry(task[t].id)
        /\ Finish(t, "deleted", task[t].id, {}, {task[t].id})
        /\ UNCHANGED failures
  /\ UNCHANGED <<toolFrame, uuidCounter>>

\* the top-5 search answers: nothing found, one confident match, or candidates
ForgetSearch(t) ==
  /\ task[t].kind = "memory_forget" /\ task[t].pc = "search"
  /\ \/ BackendFails(t)
     \/ \E results \in SearchResults(task[t].text, 5) :
          /\ UNCHANGED failures
          /\ IF Len(results) = 0
             THEN Finish(t, "found0", 0, {}, {})
             ELSE IF AutoDelete(results)
             THEN /\ task' = [task EXCEPT ![t].pc = "deleteMatch", ![t].hits = results,
                                          ![t].id = results[1].id]
                  /\ UNCHANGED toolLog
             ELSE /\ toolLog' = Append(toolLog,
                         [Outcome(t, "candidates", 0, {}, {})
                            EXCEPT !.hits = results, !.scores = Scores(results)])
                  /\ task' = [task EXCEPT ![t] = IdleTask]
  /\ UNCHANGED <<toolFrame, uuidCounter, entries, indexed>>

----------------------------------------------------------------------------
(* ToolSpec: the manual tools against the backend *)

MEMORY_CATEGORIES == {"preference", "fact", "decision", "entity", "other"}

\* memories the backend already holds when the plugin is registered
StoredBefore ==
  { {},
    {[id |-> 1, text |-> TextA, topics |-> <<"fact">>]},
    {[id |-> 1, text |-> TextA, topics |-> <<"fact">>],
     [id |-> 2, text |-> TextB, topics |-> <<"other">>]} }

ToolInit ==
  /\ normInput = <<>> /\ normResult = [threw |-> FALSE, out |-> <<>>, uuids |-> 0]
  /\ normPc = "done" /\ plugin = RegisteredPlugin /\ detected = NoDetection
  /\ summaryViewId = Null /\ uuidCounter = 0
  /\ entries \in StoredBefore /\ indexed = {e.id : e \in entries}
  /\ textDist \in DistValues
  /\ views = {} /\ summaries = <<>> /\ nextViewId = 1
  /\ failures = 0 /\ deletions = 0
  /\ task = [t \in Slots |-> IdleTask]
  /\ svc = IdleSvc
  /\ toolLog = <<>> /\ viewLog = NoViewLog
  /\ conv = NoConv /\ lastContext = NoRecall /\ wmWrites = {} /\ now = 1 /\ hookCalls = 0

ToolNext ==
  \/ \E t \in Slots, text \in ToolTexts : StoreBegin(t, text)
  \/ \E t \in Slots : StoreSearch(t)
  \/ \E t \in Slots : StoreCreate(t, "other")
  \/ \E t \in Slots : ForgetBegin(t)
  \/ \E t \in Slots : ForgetSearch(t)
  \/ \E t \in Slots : ForgetDelete(t)
  \/ IndexEntry

ToolSpec == ToolInit /\ [][ToolNext]_vars

----------------------------------------------------------------------------
(* Configuration consumed by the hooks (parseMemoryConfig defaults) *)

DEFAULT_MIN_SCORE == 30
DEFAULT_RECALL_LIMIT == 3

cfg == [namespace |-> "default", userId |-> "alice",
        workingMemorySessionId |-> "wm-main",
        summaryViewName |-> "agent_user_summary",
        summaryGroupBy |-> <<"user_id", "namespace">>,
        minScore |-> DEFAULT_MIN_SCORE, recallLimit |-> DEFAULT_RECALL_LIMIT]

----------------------------------------------------------------------------
(* Prompt handling of the pre-turn hook *)

\* number of characters of a token
Chars(tok) ==
  CASE tok \in {" ", "\n", "[", "]"} -> 1
    [] tok = "hi" -> 2
    [] tok = "abc" -> 3
    [] tok = "user" -> 4
    [] tok \in {"Hello", "there", "12:00"} -> 5
    [] tok = "general" -> 7
    [] tok = "message_id:" -> 11
    [] OTHER -> 16

\* String.prototype.length
RECURSIVE StrLen(_)
StrLen(s) == IF s = <<>> THEN 0 ELSE Chars(Head(s)) + StrLen(Tail(s))

\* text.split(/\r?\n/)
RECURSIVE SplitLines(_, _)
SplitLines(s, line) ==
  IF s = <<>> THEN <<line>>
  ELSE IF Head(s) = "\n" THEN <<line>> \o SplitLines(Tail(s), <<>>)
  ELSE SplitLines(Tail(s), Append(line, Head(s)))

\* /^\[message_id:\s*[^\]]+\]$/.test(line.trim())
IsMessageIdLine(line) ==
  LET l == Trim(line) IN
  /\ Len(l) >= 4
  /\ l[1] = "[" /\ l[2] = "message_id:" /\ l[Len(l)] = "]"
  /\ \A i \in 3..(Len(l) - 1) : l[i] # "]"

RECURSIVE FilterLines(_)
FilterLines(lines) ==
  IF lines = <<>> THEN <<>>
  ELSE (IF IsMessageIdLine(Head(lines)) THEN <<>> ELSE <<Head(lines)>>)
       \o FilterLines(Tail(lines))

\* position of the first "]" of s, 0 when there is none
FirstClose(s) ==
  IF \E i \in 1..Len(s) : s[i] = "]"
  THEN CHOOSE i \in 1..Len(s) : s[i] = "]" /\ \A j \in 1..(i - 1) : s[j] # "]"
  ELSE 0

\* result.match(/^\[([^\]]+)\]\s*/) with header.split(/\s+/).length >= 2
HasEnvelope(s) ==
  /\ s # <<>> /\ s[1] = "["
  /\ FirstClose(s) >= 3
  /\ \E i \in 2..(FirstClose(s) - 1) : s[i] \in WS

stripEnvelopeForSearch(text) ==
  LET result == Join(FilterLines(SplitLines(text, <<>>)), <<"\n">>) IN
  IF HasEnvelope(result)
  THEN Trim(TrimLeft(SubSeq(result, FirstClose(result) + 1, Len(result))))
  ELSE Trim(result)

----------------------------------------------------------------------------
(* Context blocks of the pre-turn hook *)

Partition(user, ns, summary, count, computed) ==
  [user_id |-> user, namespace |-> ns, summary |-> summary,
   memory_count |-> count, computed_at |-> computed]

\* GroupMatches testing the user only, whatever fields are configured
GroupMatchesUserOnly(p) == p.user_id = cfg.userId

\* the predicate of partitions.find
GroupMatches(p) ==
  \A i \in 1..Len(cfg.summaryGroupBy) :
    /\ cfg.summaryGroupBy[i] = "user_id" => p.user_id = cfg.userId
    /\ cfg.summaryGroupBy[i] = "namespace" => p.namespace = cfg.namespace

\* partitions.find(...) ?? partitions[0]; <<>> stands for undefined
SelectPartition(partitions) ==
  IF \E i \in 1..Len(partitions) : GroupMatches(partitions[i])
  THEN <<partitions[CHOOSE i \in 1..Len(partitions) :
            /\ GroupMatches(partitions[i])
            /\ \A j \in 1..(i - 1) : ~GroupMatches(partitions[j])]>>
  ELSE IF partitions # <<>> THEN <<partitions[1]>>
  ELSE <<>>

\* the <user-summary> block pushed on contextParts, if any
SummaryParts(partitions) ==
  LET sel == SelectPartition(partitions) IN
  IF sel # <<>> /\ sel[1].summary # NoText /\ sel[1].memory_count > 0
  THEN << SummaryOpenTag
          \o <<"\"", IF sel[1].computed_at = "" THEN "unknown" ELSE sel[1].computed_at, "\"",
               " memories=", "\"", ToString(sel[1].memory_count), "\"", ">", "\n">>
          \o sel[1].summary \o <<"\n", "</user-summary>">> >>
  ELSE <<>>

\* FilterByScore with a strict comparison
RECURSIVE FilterByScoreStrict(_)
FilterByScoreStrict(hits) ==
  IF hits = <<>> THEN <<>>
  ELSE (IF Score(Head(hits)) > cfg.minScore THEN <<Head(hits)>> ELSE <<>>)
       \o FilterByScoreStrict(Tail(hits))

\* results mapped to scores and filtered by r.score >= (cfg.minScore ?? 0.3)
RECURSIVE FilterByScore(_)
FilterByScore(hits) ==
  IF hits = <<>> THEN <<>>
  ELSE (IF Score(Head(hits)) >= cfg.minScore THEN <<Head(hits)>> ELSE <<>>)
       \o FilterByScore(Tail(hits))

\* filtered.map((r) => `- ${r.text}`)
RECURSIVE MemoryLines(_)
MemoryLines(hits) ==
  IF hits = <<>> THEN <<>>
  ELSE <<(<<"- ">> \o Head(hits).text)>> \o MemoryLines(Tail(hits))

\* the <relevant-memories query-specific="true"> block, if any
QueryParts(results) ==
  LET filtered == FilterByScore(results) IN
  IF filtered # <<>>
  THEN << RelevantOpenTag \o <<"\n">> \o Join(MemoryLines(filtered), <<"\n">>)
          \o <<"\n", "</relevant-memories>">> >>
  ELSE <<>>

\* PrependContext joining with a single newline
PrependContextCompact(parts) == Join(parts, <<"\n">>)

\* contextParts.join("\n\n"); NoText stands for returning nothing
PrependContext(parts) == Join(parts, <<"\n", "\n">>)

\* search with a distanceThreshold: the backend may drop the hits beyond it
SearchResultsWithin(q, limit, threshold) ==
  SearchResults(q, limit)
  \cup { [i \in 1..(IF Len(r) < limit THEN Len(r) ELSE limit) |-> Hit(r[i], q)] :
           r \in {p \in Perms({e \in IndexedEntries :
                                 DistFrom(q, e) = NoDist \/ DistFrom(q, e) <= threshold}) :
                    Ranked(p, q)} }

----------------------------------------------------------------------------
(* Backend: summary views (external collaborator) *)

NamedViews == {v \in views : v.name = cfg.summaryViewName}

ViewExists(id) == \E v \in views : v.id = id

\* the view of the configured name is deleted on the server behind the
\* plugin's back
DeleteView ==
  /\ deletions < MaxDeletions
  /\ \E v \in NamedViews : views' = views \ {v}
  /\ deletions' = deletions + 1
  /\ UNCHANGED <<normVars, summaryViewId, uuidCounter, entries, indexed, textDist, summaries,
                 nextViewId, failures, task, svc, toolLog, viewLog, convVars>>

\* a call is issued with the cached id
NoteUse(id) == viewLog' = [viewLog EXCEPT !.reused = @ \/ id \in viewLog.stale]

\* a call with the cached id answered not-found
NoteStale(id) == viewLog' = [viewLog EXCEPT !.stale = @ \cup {id}]

----------------------------------------------------------------------------
(* ensureSummaryView *)

\* listSummaryViews answers: failure, the existing view, or none (create)
EnsureListOutcomes ==
  (IF CanFail THEN {[r |-> "fail", id |-> Null]} ELSE {})
  \cup (IF NamedViews # {} THEN {[r |-> "found", id |-> v.id] : v \in NamedViews}
        ELSE {[r |-> "create", id |-> Null]})

\* AfterList without the test of the listing: a view is created whenever the
\* listing answers
AfterListCreateAlways(o) == IF o.r = "fail" THEN "assign" ELSE "ensureCreate"

\* the position after the list answer, and the id ensureSummaryView returns
AfterList(o) == IF o.r = "create" THEN "ensureCreate" ELSE "assign"

CreatedView == [id |-> nextViewId, name |-> cfg.summaryViewName, by |-> "plugin"]

\* what the host keeps: its conversation, the clock, its count of invocations
convFrame == <<conv, now, hookCalls>>

hookFrame == <<normVars, entries, indexed, textDist, summaries, deletions, toolLog>>

\* ensureSummaryView called from a hook's not-found catch: the list answers
EnsureList(t) ==
  /\ task[t].pc = "ensureList"
  /\ \E o \in EnsureListOutcomes :
       /\ task' = [task EXCEPT ![t].pc = AfterList(o), ![t].pend = o.id]
       /\ failures' = IF o.r = "fail" THEN failures + 1 ELSE failures
  /\ UNCHANGED <<hookFrame, convFrame, summaryViewId, uuidCounter, views, nextViewId, svc,
                 viewLog, lastContext, wmWrites>>

\* createSummaryView answers
EnsureCreate(t) ==
  /\ task[t].pc = "ensureCreate"
  /\ \/ /\ CanFail
        /\ failures' = failures + 1
        /\ task' = [task EXCEPT ![t].pc = "assign", ![t].pend = Null]
        /\ UNCHANGED <<views, nextViewId>>
     \/ /\ views' = views \cup {CreatedView}
        /\ nextViewId' = nextViewId + 1
        /\ task' = [task EXCEPT ![t].pc = "assign", ![t].pend = nextViewId]
        /\ UNCHANGED failures
  /\ UNCHANGED <<hookFrame, convFrame, summaryViewId, uuidCounter, svc, viewLog, lastContext, wmWrites>>

----------------------------------------------------------------------------
(* service.start *)

SvcStart ==
  /\ svc.pc = "stopped"
  /\ svc' = [svc EXCEPT !.pc = "health"]
  /\ UNCHANGED <<hookFrame, convFrame, summaryViewId, uuidCounter, views, nextViewId, failures,
                 task, viewLog, lastContext, wmWrites>>

\* healthCheck answers; on success ensureSummaryView is called
SvcHealth ==
  /\ svc.pc = "health"
  /\ \/ CanFail /\ failures' = failures + 1 /\ svc' = [svc EXCEPT !.pc = "done"]
     \/ svc' = [svc EXCEPT !.pc = "ensureList"] /\ UNCHANGED failures
  /\ UNCHANGED <<hookFrame, convFrame, summaryViewId, uuidCounter, views, nextViewId,
                 task, viewLog, lastContext, wmWrites>>

SvcEnsureList ==
  /\ svc.pc = "ensureList"
  /\ \E o \in EnsureListOutcomes :
       /\ svc' = [pc |-> AfterList(o), pend |-> o.id]
       /\ failures' = IF o.r = "fail" THEN failures + 1 ELSE failures
  /\ UNCHANGED <<hookFrame, convFrame, summaryViewId, uuidCounter, views, nextViewId,
                 task, viewLog, lastContext, wmWrites>>

SvcEnsureCreate ==
  /\ svc.pc = "ensureCreate"
  /\ \/ /\ CanFail
        /\ failures' = failures + 1
        /\ svc' = [pc |-> "assign", pend |-> Null]
        /\ UNCHANGED <<views, nextViewId>>
     \/ /\ views' = views \cup {CreatedView}
        /\ nextViewId' = nextViewId + 1
        /\ svc' = [pc |-> "assign", pend |-> nextViewId]
        /\ UNCHANGED failures
  /\ UNCHANGED <<hookFrame, convFrame, summaryViewId, uuidCounter, task, viewLog, lastContext, wmWrites>>

\* summaryViewId = await ensureSummaryView()
SvcAssign ==
  /\ svc.pc = "assign"
  /\ summaryViewId' = svc.pend
  /\ svc' = [pc |-> "done", pend |-> 0]
  /\ UNCHANGED <<hookFrame, convFrame, uuidCounter, views, nextViewId, failures,
                 task, viewLog, lastContext, wmWrites>>

----------------------------------------------------------------------------
(* before_agent_start handler *)

\* partition lists the backend may hold for the view
Likes == <<"likes", "tea">>
Owns == <<"owns", "cat">>
Notes == <<"old", "notes">>
MixedPartitions ==
  <<Partition("bob", "default", Owns, 1, ""),
    Partition("alice", "archive", Notes, 3, "t0"),
    Partition("alice", "default", Likes, 2, "t1")>>
PartitionLists ==
  { <<>>,
    MixedPartitions,
    <<Partition("alice", "default", Likes, 0, "t1")>>,
    <<Partition("bob", "default", Owns, 1, "")>> }

\* the handler returns: prependContext, or nothing (NoText).  rec.parts is
\* contextParts after the summary component; search tells whether the
\* semantic search was made ("none"), failed or answered with results, and
\* searchText is the text it was made with
RecallReturn(t, rec, search, results) ==
  LET query == IF search = "answered" THEN QueryParts(results) ELSE <<>> IN
  /\ lastContext' = [text |-> PrependContext(rec.parts \o query), prompt |-> rec.text,
                     fetch |-> rec.fetch, partitions |-> rec.partitions,
                     summary |-> rec.parts, search |-> search, results |-> results,
                     query |-> query,
                     searchText |-> IF search = "none" THEN NoText
                                    ELSE stripEnvelopeForSearch(rec.text)]
  /\ task' = [task EXCEPT ![t] = IdleTask]

\* RecallToSearch as if one try block held both components: an error in the
\* summary component ends the handler
RecallToSearchUnlessFetchFailed(t, rec) ==
  LET searchQuery == stripEnvelopeForSearch(rec.text) IN
  IF rec.fetch \notin {"failed", "notfound"} /\ searchQuery # NoText /\ StrLen(searchQuery) >= 5
  THEN /\ task' = [task EXCEPT ![t] = [rec EXCEPT !.pc = "search"]]
       /\ UNCHANGED lastContext
  ELSE RecallReturn(t, rec, "none", <<>>)

\* step 2: the semantic search is issued when the stripped prompt is long enough
RecallToSearch(t, rec) ==
  LET searchQuery == stripEnvelopeForSearch(rec.text) IN
  IF searchQuery # NoText /\ StrLen(searchQuery) >= 5
  THEN /\ task' = [task EXCEPT ![t] = [rec EXCEPT !.pc = "search"]]
       /\ UNCHANGED lastContext
  ELSE RecallReturn(t, rec, "none", <<>>)

\* the prompt test with the length left out
PromptMissing(prompt) == prompt = NoText

\* !e.prompt || e.prompt.length < 5
PromptTooShort(prompt) == prompt = NoText \/ StrLen(prompt) < 5

\* entry: the prompt test, then the partition listing with the cached id
RecallBegin(t, prompt) ==
  /\ FreeSlot(t)
  /\ LET rec == [IdleTask EXCEPT !.kind = "before_agent_start", !.text = prompt] IN
     IF PromptTooShort(prompt)
     THEN RecallReturn(t, rec, "none", <<>>) /\ UNCHANGED viewLog
     ELSE IF summaryViewId # Null
     THEN /\ task' = [task EXCEPT ![t] = [rec EXCEPT !.pc = "partitions", !.view = summaryViewId]]
          /\ NoteUse(summaryViewId)
          /\ UNCHANGED lastContext
     ELSE RecallToSearch(t, [rec EXCEPT !.fetch = "skipped"]) /\ UNCHANGED viewLog
  /\ UNCHANGED <<hookFrame, summaryViewId, uuidCounter, views, nextViewId, failures,
                 svc, wmWrites>>

\* listSummaryViewPartitions answers
RecallPartitions(t) ==
  /\ task[t].kind = "before_agent_start" /\ task[t].pc = "partitions"
  /\ \/ /\ ~ViewExists(task[t].view)
        /\ NoteStale(task[t].view)
        /\ task' = [task EXCEPT ![t].pc = "ensureList", ![t].fetch = "notfound"]
        /\ UNCHANGED <<failures, lastContext>>
     \/ /\ CanFail
        /\ failures' = failures + 1
        /\ RecallToSearch(t, [task[t] EXCEPT !.fetch = "failed"])
        /\ UNCHANGED viewLog
     \/ /\ ViewExists(task[t].view)
        /\ RecallToSearch(t, [task[t] EXCEPT !.fetch = "listed", !.partitions = summaries,
                                          !.parts = SummaryParts(summaries)])
        /\ UNCHANGED <<failures, viewLog>>
  /\ UNCHANGED <<hookFrame, convFrame, summaryViewId, uuidCounter, views, nextViewId, svc, wmWrites>>

\* searchLongTermMemory answers, then the handler returns
RecallSearch(t) ==
  /\ task[t].kind = "before_agent_start" /\ task[t].pc = "search"
  /\ \/ /\ CanFail
        /\ failures' = failures + 1
        /\ RecallReturn(t, task[t], "failed", <<>>)
     \/ /\ \E results \in SearchResultsWithin(stripEnvelopeForSearch(task[t].text),
                                              cfg.recallLimit, 100 - cfg.minScore) :
             RecallReturn(t, task[t], "answered", results)
        /\ UNCHANGED failures
  /\ UNCHANGED <<hookFrame, convFrame, summaryViewId, uuidCounter, views, nextViewId, svc,
                 viewLog, wmWrites>>

----------------------------------------------------------------------------
(* agent_end handler *)

NoKey == ""

\* ctx?.sessionKey ?? `session-${Date.now()}`
SessionId(sessionKey, clock) ==
  IF sessionKey # NoKey THEN [key |-> sessionKey, at |-> 0]
  ELSE [key |-> "session-", at |-> clock]

Ids(msgs) == {msgs[i].id : i \in 1..Len(msgs)}

\* putWorkingMemory(sessionId, {messages}) replaces the session's messages
PutWorkingMemory(session, msgs) ==
  {w \in wmWrites : w.session # session}
  \cup {[session |-> session, messages |-> msgs,
         before |-> UNION {Ids(w.messages) \cup w.before : w \in {x \in wmWrites : x.session = session}}]}

\* the capture cutoff the plugin keeps for a session: the handler reads and
\* writes no per-session state, so no session ever has one
lastCaptureTimestamp(session) == Null

\* CaptureBegin without the test of event.success
CaptureBeginIgnoresSuccess(t, success, messages, sessionKey) ==
  /\ FreeSlot(t)
  /\ LET conv1 == convertToMemoryMessages(messages, uuidCounter, now) IN
     IF messages = <<>>
     THEN UNCHANGED <<task, uuidCounter>>
     ELSE /\ conv1.uuids <= MaxUuids
          /\ uuidCounter' = conv1.uuids
          /\ IF conv1.threw \/ conv1.out = <<>>
             THEN UNCHANGED task
             ELSE task' = [task EXCEPT ![t] =
                     [IdleTask EXCEPT !.kind = "agent_end", !.pc = "put", !.msgs = conv1.out,
                                      !.session = SessionId(sessionKey, now)]]
  /\ UNCHANGED <<hookFrame, summaryViewId, views, nextViewId, failures, svc,
                 viewLog, lastContext, wmWrites>>

\* entry: the event test, the conversion, then the working-memory write
CaptureBegin(t, success, messages, sessionKey) ==
  /\ FreeSlot(t)
  /\ LET conv1 == convertToMemoryMessages(messages, uuidCounter, now) IN
     IF ~success \/ messages = <<>>
     THEN UNCHANGED <<task, uuidCounter>>
     ELSE /\ conv1.uuids <= MaxUuids
          /\ uuidCounter' = conv1.uuids
          /\ IF conv1.threw \/ conv1.out = <<>>
             THEN UNCHANGED task
             ELSE task' = [task EXCEPT ![t] =
                     [IdleTask EXCEPT !.kind = "agent_end", !.pc = "put", !.msgs = conv1.out,
                                      !.session = SessionId(sessionKey, now)]]
  /\ UNCHANGED <<hookFrame, summaryViewId, views, nextViewId, failures, svc,
                 viewLog, lastContext, wmWrites>>

\* CapturePut with the refresh outside the try of the write: it is triggered
\* whether the write succeeded or not
CapturePutRefreshAlways(t) ==
  /\ task[t].kind = "agent_end" /\ task[t].pc = "put"
  /\ \/ /\ CanFail
        /\ failures' = failures + 1
        /\ UNCHANGED wmWrites
     \/ /\ wmWrites' = PutWorkingMemory(task[t].session, task[t].msgs)
        /\ UNCHANGED failures
  /\ IF summaryViewId # Null
     THEN /\ task' = [task EXCEPT ![t].pc = "refresh", ![t].view = summaryViewId]
          /\ NoteUse(summaryViewId)
     ELSE /\ task' = [task EXCEPT ![t] = IdleTask]
          /\ UNCHANGED viewLog
  /\ UNCHANGED <<hookFrame, convFrame, summaryViewId, uuidCounter, views, nextViewId, svc, lastContext>>

\* putWorkingMemory answers; the refresh is triggered with the cached id
CapturePut(t) ==
  /\ task[t].kind = "agent_end" /\ task[t].pc = "put"
  /\ \/ /\ CanFail
        /\ failures' = failures + 1
        /\ task' = [task EXCEPT ![t] = IdleTask]
        /\ UNCHANGED <<wmWrites, viewLog>>
     \/ /\ wmWrites' = PutWorkingMemory(task[t].session, task[t].msgs)
        /\ UNCHANGED failures
        /\ IF summaryViewId # Null
           THEN /\ task' = [task EXCEPT ![t].pc = "refresh", ![t].view = summaryViewId]
                /\ NoteUse(summaryViewId)
           ELSE /\ task' = [task EXCEPT ![t] = IdleTask]
                /\ UNCHANGED viewLog
  /\ UNCHANGED <<hookFrame, convFrame, summaryViewId, uuidCounter, views, nextViewId, svc, lastContext>>

\* CaptureRefresh without the instanceof test: any error of the refresh
\* re-resolves the view
CaptureRefreshAnyError(t) ==
  /\ task[t].kind = "agent_end" /\ task[t].pc = "refresh"
  /\ \/ /\ ~ViewExists(task[t].view)
        /\ NoteStale(task[t].view)
        /\ task' = [task EXCEPT ![t].pc = "ensureList"]
        /\ UNCHANGED failures
     \/ /\ CanFail
        /\ failures' = failures + 1
        /\ task' = [task EXCEPT ![t].pc = "ensureList"]
        /\ UNCHANGED viewLog
     \/ /\ ViewExists(task[t].view)
        /\ task' = [task EXCEPT ![t] = IdleTask]
        /\ UNCHANGED <<failures, viewLog>>
  /\ UNCHANGED <<hookFrame, convFrame, summaryViewId, uuidCounter, views, nextViewId, svc,
                 lastContext, wmWrites>>

\* runSummaryView answers
CaptureRefresh(t) ==
  /\ task[t].kind = "agent_end" /\ task[t].pc = "refresh"
  /\ \/ /\ ~ViewExists(task[t].view)
        /\ NoteStale(task[t].view)
        /\ task' = [task EXCEPT ![t].pc = "ensureList"]
        /\ UNCHANGED failures
     \/ /\ CanFail
        /\ failures' = failures + 1
        /\ task' = [task EXCEPT ![t] = IdleTask]
        /\ UNCHANGED viewLog
     \/ /\ ViewExists(task[t].view)
        /\ task' = [task EXCEPT ![t] = IdleTask]
        /\ UNCHANGED <<failures, viewLog>>
  /\ UNCHANGED <<hookFrame, convFrame, summaryViewId, uuidCounter, views, nextViewId, svc,
                 lastContext, wmWrites>>

\* Assign with an inline retry: the pre-turn hook lists the partitions again
\* with the id ensureSummaryView returned
AssignThenRetry(t) ==
  /\ task[t].pc = "assign"
  /\ summaryViewId' = task[t].pend
  /\ IF task[t].kind = "before_agent_start"
     THEN IF task[t].pend # Null
          THEN /\ task' = [task EXCEPT ![t].pc = "partitions", ![t].view = task[t].pend,
                                       ![t].pend = 0]
               /\ UNCHANGED lastContext
          ELSE RecallToSearch(t, [task[t] EXCEPT !.pend = 0])
     ELSE task' = [task EXCEPT ![t] = IdleTask] /\ UNCHANGED lastContext
  /\ UNCHANGED <<hookFrame, convFrame, uuidCounter, views, nextViewId, failures, svc, viewLog, wmWrites>>

\* summaryViewId = await ensureSummaryView() in the not-found catch of a hook;
\* the pre-turn hook goes on to its search, the post-turn hook returns
Assign(t) ==
  /\ task[t].pc = "assign"
  /\ summaryViewId' = task[t].pend
  /\ IF task[t].kind = "before_agent_start"
     THEN RecallToSearch(t, [task[t] EXCEPT !.pend = 0])
     ELSE task' = [task EXCEPT ![t] = IdleTask] /\ UNCHANGED lastContext
  /\ UNCHANGED <<hookFrame, convFrame, uuidCounter, views, nextViewId, failures, svc, viewLog, wmWrites>>

----------------------------------------------------------------------------
(* Spec: service start and the two hooks, interleaved at their awaits *)

\* views on the server when the plugin is registered: one of another name,
\* and one of the configured name left by an earlier run
ForeignView == [id |-> 50, name |-> "other_view", by |-> "other"]
EarlierView == [id |-> 51, name |-> cfg.summaryViewName, by |-> "earlier"]

Envelope == <<"[", "general", " ", "user", " ", "12:00", "]", " ">>
HookPrompts == {NoText, <<"hi">>, Envelope \o Hello}

UserHello == Turn(StrVal("user"), StrContent(Hello), IdVal(1), 5)
AssistantThere == Turn(StrVal("assistant"), ArrContent(<<TextBlock(<<"there">>)>>), IdVal(2), 0)
HookEvents ==
  { <<>>,
    <<Turn(StrVal("system"), StrContent(Hello), IdVal(3), 0)>>,
    <<UserHello, AssistantThere>> }

SessionKeys == {"s1"}

\* the host invokes a hook at any time, whatever else is in flight
HostCalls ==
  /\ hookCalls < MaxHooks
  /\ hookCalls' = hookCalls + 1
  /\ UNCHANGED <<conv, now>>

HostRecall(t, prompt) == RecallBegin(t, prompt) /\ HostCalls

HostCapture(t, success, messages, sessionKey) ==
  CaptureBegin(t, success, messages, sessionKey) /\ HostCalls

Init ==
  /\ normInput = <<>> /\ normResult = [threw |-> FALSE, out |-> <<>>, uuids |-> 0]
  /\ normPc = "done" /\ plugin = RegisteredPlugin /\ detected = NoDetection
  /\ summaryViewId = Null /\ uuidCounter = 0
  /\ entries = {[id |-> 1, text |-> TextA, topics |-> <<"fact">>],
                [id |-> 2, text |-> TextB, topics |-> <<"other">>]}
  /\ indexed = {1, 2}
  /\ textDist = 150
  /\ views = {ForeignView, EarlierView}
  /\ summaries = MixedPartitions
  /\ nextViewId = 1
  /\ failures = 0 /\ deletions = 0
  /\ task = [t \in Slots |-> IdleTask]
  /\ svc = IdleSvc
  /\ toolLog = <<>> /\ viewLog = NoViewLog
  /\ conv = NoConv /\ lastContext = NoRecall /\ wmWrites = {} /\ now = 1 /\ hookCalls = 0

Next ==
  \/ SvcStart
  \/ SvcHealth
  \/ SvcEnsureList
  \/ SvcEnsureCreate
  \/ SvcAssign
  \/ \E t \in Slots, prompt \in HookPrompts : HostRecall(t, prompt)
  \/ \E t \in Slots : RecallPartitions(t)
  \/ \E t \in Slots : RecallSearch(t)
  \/ \E t \in Slots, success \in BOOLEAN, messages \in HookEvents, sessionKey \in SessionKeys :
       HostCapture(t, success, messages, sessionKey)
  \/ \E t \in Slots : CapturePut(t)
  \/ \E t \in Slots : CaptureRefresh(t)
  \/ \E t \in Slots : EnsureList(t)
  \/ \E t \in Slots : EnsureCreate(t)
  \/ \E t \in Slots : Assign(t)
  \/ DeleteView

Spec == Init /\ [][Next]_vars

----------------------------------------------------------------------------
(* CaptureSpec: one session of the host, one hook at a time.  Each turn the
   host calls before_agent_start with the prompt, prepends the returned
   context to the prompt, runs the agent, and calls agent_end with the
   session's turns so far. *)

MaxTurns == 2        \* turns of the host's session in one behaviour

AllIdle == \A t \in Slots : ~Busy(t)

\* the user turn as the session records it: prependContext, a blank line,
\* the prompt
PromptWithContext(context, prompt) ==
  IF context = NoText THEN prompt ELSE context \o <<"\n", "\n">> \o prompt

\* the host calls before_agent_start with the user's prompt
HostPrompt(t, prompt) ==
  /\ conv.phase = "idle" /\ AllIdle
  /\ Len(conv.turns) < 2 * MaxTurns
  /\ RecallBegin(t, prompt)
  /\ conv' = [conv EXCEPT !.prompt = prompt, !.phase = "recall"]
  /\ UNCHANGED <<now, hookCalls>>

\* the agent runs: the session gains the user turn and the assistant's reply
HostTurn ==
  /\ conv.phase = "recall" /\ AllIdle
  /\ LET n == Len(conv.turns) IN
     conv' = [conv EXCEPT
       !.turns = @ \o <<Turn(StrVal("user"),
                             StrContent(PromptWithContext(lastContext.text, conv.prompt)),
                             IdVal(n + 1), now),
                        Turn(StrVal("assistant"), ArrContent(<<TextBlock(TextB)>>),
                             IdVal(n + 2), now)>>,
       !.phase = "turn"]
  /\ now' = now + 1
  /\ lastContext' = NoRecall
  /\ UNCHANGED <<normVars, summaryViewId, uuidCounter, backendVars, task, svc, toolLog,
                 viewLog, wmWrites, hookCalls>>

\* the host calls agent_end with the session's turns
HostEnd(t, success, sessionKey) ==
  /\ conv.phase = "turn" /\ AllIdle
  /\ CaptureBegin(t, success, conv.turns, sessionKey)
  /\ conv' = [conv EXCEPT !.phase = "idle"]
  /\ UNCHANGED <<now, hookCalls>>

\* the prompts of the session: too short, matching a stored memory, matching none
SessionPrompts == HookPrompts \cup {<<"what", " ", "now">>}

\* distances on both sides of the 1 - minScore threshold, and a missing one
SessionDists == {NoDist, 10, 70, 71, 150}

CaptureInit ==
  /\ normInput = <<>> /\ normResult = [threw |-> FALSE, out |-> <<>>, uuids |-> 0]
  /\ normPc = "done" /\ plugin = RegisteredPlugin /\ detected = NoDetection
  /\ \/ summaryViewId = Null /\ svc = IdleSvc
     \/ summaryViewId = EarlierView.id /\ svc = [pc |-> "done", pend |-> 0]
  /\ uuidCounter = 0
  /\ entries = {[id |-> 1, text |-> TextA, topics |-> <<"fact">>],
                [id |-> 2, text |-> TextB, topics |-> <<"other">>]}
  /\ indexed = {1, 2}
  /\ textDist \in SessionDists
  /\ views = {ForeignView, EarlierView}
  /\ summaries \in PartitionLists
  /\ nextViewId = 1
  /\ failures = 0 /\ deletions = 0
  /\ task = [t \in Slots |-> IdleTask]
  /\ toolLog = <<>> /\ viewLog = NoViewLog
  /\ conv = NoConv /\ lastContext = NoRecall /\ wmWrites = {} /\ now = 1 /\ hookCalls = 0

CaptureNext ==
  \/ \E t \in Slots, prompt \in SessionPrompts : HostPrompt(t, prompt)
  \/ \E t \in Slots : RecallPartitions(t)
  \/ \E t \in Slots : RecallSearch(t)
  \/ HostTurn
  \/ \E t \in Slots, success \in BOOLEAN, sessionKey \in SessionKeys :
       HostEnd(t, success, sessionKey)
  \/ \E t \in Slots : CapturePut(t)
  \/ \E t \in Slots : CaptureRefresh(t)

CaptureSpec == CaptureInit /\ [][CaptureNext]_vars

----------------------------------------------------------------------------
(* memory_recall.execute *)

\* entry: parameters destructured (limit defaults to 5), the search issued
MemoryRecallBegin(t, query) ==
  /\ FreeSlot(t)
  /\ CallsBegun < MaxCalls
  /\ task' = Begin(t, [IdleTask EXCEPT !.kind = "memory_recall", !.text = query, !.pc = "search"])
  /\ UNCHANGED <<toolFrame, uuidCounter, entries, indexed, failures, toolLog>>

\* RecallDetails without the filter: every result of the search is returned
RecallDetailsUnfiltered(results) == [count |-> Len(results), memories |-> results]

\* details of the answer: {count: 0} when the search or the filter leaves
\* nothing, else {count: filtered.length, memories: filtered}
RecallDetails(results) ==
  LET filtered == FilterByScore(results) IN
  IF results = <<>> \/ filtered = <<>> THEN [count |-> 0, memories |-> <<>>]
  ELSE [count |-> Len(filtered), memories |-> filtered]

\* the search answers: nothing found, nothing above the minimum score, or
\* the filtered memories
MemoryRecallSearch(t) ==
  /\ task[t].kind = "memory_recall" /\ task[t].pc = "search"
  /\ \/ BackendFails(t)
     \/ \E results \in SearchResults(task[t].text, 5) :
          LET details == RecallDetails(results) IN
          /\ UNCHANGED failures
          /\ toolLog' = Append(toolLog,
               [Outcome(t, IF details.memories = <<>> THEN "count0" ELSE "found", 0, {}, {})
                  EXCEPT !.hits = details.memories,
                         !.scores = Scores(details.memories),
                         !.count = details.count,
                         !.raw = results])
          /\ task' = [task EXCEPT ![t] = IdleTask]
  /\ UNCHANGED <<toolFrame, uuidCounter, entries, indexed>>

----------------------------------------------------------------------------
(* RecallSpec: memory_recall against a backend that makes its entries visible
   to search one at a time *)

RecallQueries == {TextA, <<"what", " ", "now">>}

RecallInit ==
  /\ normInput = <<>> /\ normResult = [threw |-> FALSE, out |-> <<>>, uuids |-> 0]
  /\ normPc = "done" /\ plugin = RegisteredPlugin /\ detected = NoDetection
  /\ summaryViewId = Null /\ uuidCounter = 0
  /\ entries \in StoredBefore /\ indexed = {}
  /\ textDist \in SessionDists
  /\ views = {} /\ summaries = <<>> /\ nextViewId = 1
  /\ failures = 0 /\ deletions = 0
  /\ task = [t \in Slots |-> IdleTask]
  /\ svc = IdleSvc
  /\ toolLog = <<>> /\ viewLog = NoViewLog
  /\ conv = NoConv /\ lastContext = NoRecall /\ wmWrites = {} /\ now = 1 /\ hookCalls = 0

RecallNext ==
  \/ \E t \in Slots, query \in RecallQueries : MemoryRecallBegin(t, query)
  \/ \E t \in Slots : MemoryRecallSearch(t)
  \/ IndexEntry

RecallSpec == RecallInit /\ [][RecallNext]_vars

----------------------------------------------------------------------------
(* FailSpec: every handler of the plugin, one invocation at a time, against a
   backend whose calls may fail *)

\* nothing is in flight
Quiet == AllIdle /\ svc.pc \in {"stopped", "done"}

\* handlers invoked so far: tool calls answered, hook calls, the service start
Invocations == Len(toolLog) + hookCalls + (IF svc.pc = "stopped" THEN 0 ELSE 1)

\* the host invokes the next handler
Invocable == Quiet /\ Invocations < MaxCalls

QuietStore(t, text) == Invocable /\ StoreBegin(t, text)
QuietForget(t) == Invocable /\ ForgetBegin(t)
QuietMemoryRecall(t, query) == Invocable /\ MemoryRecallBegin(t, query)
QuietRecall(t, prompt) == Invocable /\ HostRecall(t, prompt)
QuietCapture(t, success, messages, sessionKey) ==
  Invocable /\ HostCapture(t, success, messages, sessionKey)
QuietStart == Invocable /\ SvcStart
QuietDeleteView == Quiet /\ DeleteView

FailInit ==
  /\ normInput = <<>> /\ normResult = [threw |-> FALSE, out |-> <<>>, uuids |-> 0]
  /\ normPc = "done" /\ plugin = RegisteredPlugin /\ detected = NoDetection
  /\ summaryViewId = Null /\ uuidCounter = 0
  /\ entries = {[id |-> 1, text |-> TextA, topics |-> <<"fact">>],
                [id |-> 2, text |-> TextB, topics |-> <<"other">>]}
  /\ indexed = {1, 2}
  /\ textDist \in {10, 100, 150}
  /\ views = {ForeignView, EarlierView}
  /\ summaries = MixedPartitions
  /\ nextViewId = 1
  /\ failures = 0 /\ deletions = 0
  /\ task = [t \in Slots |-> IdleTask]
  /\ svc = IdleSvc
  /\ toolLog = <<>> /\ viewLog = NoViewLog
  /\ conv = NoConv /\ lastContext = NoRecall /\ wmWrites = {} /\ now = 1 /\ hookCalls = 0

FailNext ==
  \/ \E t \in Slots : QuietStore(t, TextB)
  \/ \E t \in Slots : StoreSearch(t)
  \/ \E t \in Slots : StoreCreate(t, "other")
  \/ \E t \in Slots : QuietForget(t)
  \/ \E t \in Slots : ForgetSearch(t)
  \/ \E t \in Slots : ForgetDelete(t)
  \/ \E t \in Slots : QuietMemoryRecall(t, TextA)
  \/ \E t \in Slots : MemoryRecallSearch(t)
  \/ QuietStart
  \/ SvcHealth
  \/ SvcEnsureList
  \/ SvcEnsureCreate
  \/ SvcAssign
  \/ \E t \in Slots : QuietRecall(t, Envelope \o Hello)
  \/ \E t \in Slots : RecallPartitions(t)
  \/ \E t \in Slots : RecallSearch(t)
  \/ \E t \in Slots, success \in BOOLEAN, messages \in HookEvents :
       QuietCapture(t, success, messages, "s1")
  \/ \E t \in Slots : CapturePut(t)
  \/ \E t \in Slots : CaptureRefresh(t)
  \/ \E t \in Slots : EnsureList(t)
  \/ \E t \in Slots : EnsureCreate(t)
  \/ \E t \in Slots : Assign(t)
  \/ QuietDeleteView

FailSpec == FailInit /\ [][FailNext]_vars

----------------------------------------------------------------------------
(* StripSpec: the pre-turn hook, one call at a time, on prompts with and
   without envelope headers and message_id lines *)

MessageIdLine == <<"[", "message_id:", " ", "abc", "]">>

StripPrompts ==
  { Envelope \o Hello,
    Envelope \o <<"hi">>,
    MessageIdLine \o <<"\n">> \o Hello,
    Hello \o <<"\n">> \o MessageIdLine \o <<"\n">> \o TextB,
    Hello \o <<" ">> \o MessageIdLine,
    <<"[", "abc", "]", " ">> \o Hello,
    <<"[", "abc", " ", "]", " ">> \o Hello,
    <<" ", " ">> \o Hello \o <<" ">> }

StripInit ==
  /\ normInput = <<>> /\ normResult = [threw |-> FALSE, out |-> <<>>, uuids |-> 0]
  /\ normPc = "done" /\ plugin = RegisteredPlugin /\ detected = NoDetection
  /\ summaryViewId = Null /\ uuidCounter = 0
  /\ entries = {[id |-> 1, text |-> TextA, topics |-> <<"fact">>],
                [id |-> 2, text |-> TextB, topics |-> <<"other">>]}
  /\ indexed = {1, 2}
  /\ textDist \in {10, 150}
  /\ views = {} /\ summaries = <<>> /\ nextViewId = 1
  /\ failures = 0 /\ deletions = 0
  /\ task = [t \in Slots |-> IdleTask]
  /\ svc = IdleSvc
  /\ toolLog = <<>> /\ viewLog = NoViewLog
  /\ conv = NoConv /\ lastContext = NoRecall /\ wmWrites = {} /\ now = 1 /\ hookCalls = 0

StripNext ==
  \/ \E t \in Slots, prompt \in StripPrompts : QuietRecall(t, prompt)
  \/ \E t \in Slots : RecallSearch(t)

StripSpec == StripInit /\ [][StripNext]_vars

----------------------------------------------------------------------------
(* Category detection for the manual store tool *)

\* String.prototype.toLowerCase on one token
Lower(tok) ==
  CASE tok = "I" -> "i"
    [] tok = "We" -> "we"
    [] tok = "Like" -> "like"
    [] tok = "Rex" -> "rex"
    [] tok = "Hello" -> "hello"
    [] OTHER -> tok

toLowerCase(s) == [i \in DOMAIN s |-> Lower(s[i])]

\* the alternatives of the four regular expressions that are literals; the
\* Czech cues are written without their diacritics (radsi, ma)
PreferenceCues == {<<"prefer">>, <<"radsi">>, <<"like">>, <<"love">>, <<"hate">>, <<"want">>}
DecisionCues == {<<"rozhodli">>, <<"decided">>, <<"will", " ", "use">>, <<"budeme">>}
EntityCues == {<<"is", " ", "called">>, <<"jmenuje", " ", "se">>}
FactCues == {<<"is">>, <<"are">>, <<"has">>, <<"have">>, <<"je">>, <<"ma">>, <<"jsou">>}

\* tokens matched by \+\d{10,} and by @[\w.-]+\.\w+
PhoneTokens == {"+420123456789"}
HandleTokens == {"@example.com"}

\* RegExp.prototype.test for an alternation of literals: some alternative
\* occurs somewhere in the text
HasCue(text, cues) == \E c \in cues : Includes(text, c)

\* detectCategory with the fact rule tried before the entity rule
detectCategoryFactFirst(text) ==
  LET lower == toLowerCase(text) IN
  IF HasCue(lower, PreferenceCues) THEN "preference"
  ELSE IF HasCue(lower, DecisionCues) THEN "decision"
  ELSE IF HasCue(lower, FactCues) THEN "fact"
  ELSE IF \/ \E i \in DOMAIN lower : lower[i] \in PhoneTokens \cup HandleTokens
          \/ HasCue(lower, EntityCues) THEN "entity"
  ELSE "other"

detectCategory(text) ==
  LET lower == toLowerCase(text) IN
  IF HasCue(lower, PreferenceCues) THEN "preference"
  ELSE IF HasCue(lower, DecisionCues) THEN "decision"
  ELSE IF \/ \E i \in DOMAIN lower : lower[i] \in PhoneTokens \cup HandleTokens
          \/ HasCue(lower, EntityCues) THEN "entity"
  ELSE IF HasCue(lower, FactCues) THEN "fact"
  ELSE "other"

----------------------------------------------------------------------------
(* StoreSpec: memory_store called without a category, one call at a time, on
   texts that carry the cues of the category rules and on empty texts *)

\* the category parameter left out by the caller
Omitted == "undefined"

\* const { text, category = "other" } = params
CategoryParam(category) == IF category = Omitted THEN "other" ELSE category

ILikeTea == <<"I", " ", "Like", " ", "tea">>
WeDecided == <<"We", " ", "decided", " ", "to", " ", "like", " ", "it">>
WillUse == <<"We", " ", "will", " ", "use", " ", "it">>
IsCalledRex == <<"dog", " ", "is", " ", "called", " ", "Rex">>
MailMe == <<"mail", " ", "@example.com">>
SkyIsBlue == <<"sky", " ", "is", " ", "blue">>
CategoryTexts == {ILikeTea, WeDecided, WillUse, IsCalledRex, MailMe, SkyIsBlue, TextB}

\* the empty text and a text of blanks
BlankTexts == {NoText, Blank}

StoreInit ==
  /\ normInput = <<>> /\ normResult = [threw |-> FALSE, out |-> <<>>, uuids |-> 0]
  /\ normPc = "done" /\ plugin = RegisteredPlugin /\ detected = NoDetection
  /\ summaryViewId = Null /\ uuidCounter = 0
  /\ entries = {} /\ indexed = {}
  /\ textDist = 150
  /\ views = {} /\ summaries = <<>> /\ nextViewId = 1
  /\ failures = 0 /\ deletions = 0
  /\ task = [t \in Slots |-> IdleTask]
  /\ svc = IdleSvc
  /\ toolLog = <<>> /\ viewLog = NoViewLog
  /\ conv = NoConv /\ lastContext = NoRecall /\ wmWrites = {} /\ now = 1 /\ hookCalls = 0

StoreNext ==
  \/ \E t \in Slots, text \in CategoryTexts \cup BlankTexts : QuietStore(t, text)
  \/ \E t \in Slots : StoreSearch(t)
  \/ \E t \in Slots : StoreCreate(t, CategoryParam(Omitted))
  \/ IndexEntry

StoreSpec == StoreInit /\ [][StoreNext]_vars

----------------------------------------------------------------------------
(* DetectSpec: detectCategory on every short text made of cue words *)

MaxWords == 3        \* longest text handed to detectCategory alone

\* a word of each rule class, one of them capitalised, and a word of none
CueWords == {"Like", "decided", "@example.com", "is", "tea"}

DetectTexts == SeqsUpTo(CueWords, MaxWords) \cup CategoryTexts

DetectInit ==
  /\ normInput = <<>> /\ normResult = [threw |-> FALSE, out |-> <<>>, uuids |-> 0]
  /\ normPc = "done" /\ plugin = RegisteredPlugin
  /\ detected \in {[pc |-> "ready", text |-> text, category |-> ""] : text \in DetectTexts}
  /\ summaryViewId = Null /\ uuidCounter = 0
  /\ entries = {} /\ indexed = {} /\ textDist = NoDist
  /\ views = {} /\ summaries = <<>> /\ nextViewId = 1
  /\ failures = 0 /\ deletions = 0
  /\ task = [t \in Slots |-> IdleTask]
  /\ svc = IdleSvc
  /\ toolLog = <<>> /\ viewLog = NoViewLog
  /\ conv = NoConv /\ lastContext = NoRecall /\ wmWrites = {} /\ now = 1 /\ hookCalls = 0

Detect ==
  /\ detected.pc = "ready"
  /\ detected' = [detected EXCEPT !.pc = "done", !.category = detectCategory(detected.text)]
  /\ UNCHANGED <<normInput, normResult, normPc, plugin, summaryViewId, uuidCounter, backendVars,
                 task, svc, toolLog, viewLog, convVars>>

DetectSpec == DetectInit /\ [][Detect]_vars

----------------------------------------------------------------------------
(* ConfigSpec: register() on a configuration the host supplies, then the
   host using what was registered *)

RawConfigs ==
  {NullConfig}
  \cup { RawConfig(strategy, prompt, recall, BoolVal(TRUE)) :
           strategy \in {Undef, NumVal, StrVal("discrete"), StrVal("custom"), StrVal("bogus")},
           prompt \in {Undef, StrVal(""), StrVal("focus on names")},
           recall \in {Undef, BoolVal(FALSE)} }

Register ==
  /\ plugin.pc = "loaded"
  /\ plugin' = RegisterResult(plugin.config)
  /\ UNCHANGED <<normInput, normResult, normPc, detected, summaryViewId, uuidCounter, backendVars,
                 task, svc, toolLog, viewLog, convVars>>

IsRegistered(name) == name \in plugin.registered

RegisteredStore(t, text) == IsRegistered("memory_store") /\ QuietStore(t, text)
RegisteredRecall(t, prompt) == IsRegistered("before_agent_start") /\ QuietRecall(t, prompt)
RegisteredStart == IsRegistered("redis-memory") /\ QuietStart

ConfigInit ==
  /\ normInput = <<>> /\ normResult = [threw |-> FALSE, out |-> <<>>, uuids |-> 0]
  /\ normPc = "done"
  /\ plugin \in {LoadedPlugin(value) : value \in RawConfigs} /\ detected = NoDetection
  /\ summaryViewId = Null /\ uuidCounter = 0
  /\ entries = {[id |-> 1, text |-> TextA, topics |-> <<"fact">>]}
  /\ indexed = {1}
  /\ textDist = 150
  /\ views = {ForeignView}
  /\ summaries = MixedPartitions
  /\ nextViewId = 1
  /\ failures = 0 /\ deletions = 0
  /\ task = [t \in Slots |-> IdleTask]
  /\ svc = IdleSvc
  /\ toolLog = <<>> /\ viewLog = NoViewLog
  /\ conv = NoConv /\ lastContext = NoRecall /\ wmWrites = {} /\ now = 1 /\ hookCalls = 0

ConfigNext ==
  \/ Register
  \/ RegisteredStart
  \/ SvcHealth
  \/ SvcEnsureList
  \/ SvcEnsureCreate
  \/ SvcAssign
  \/ \E t \in Slots : RegisteredStore(t, TextB)
  \/ \E t \in Slots : StoreSearch(t)
  \/ \E t \in Slots : StoreCreate(t, CategoryParam(Omitted))
  \/ \E t \in Slots : RegisteredRecall(t, Envelope \o Hello)
  \/ \E t \in Slots : RecallPartitions(t)
  \/ \E t \in Slots : RecallSearch(t)

ConfigSpec == ConfigInit /\ [][ConfigNext]_vars

----------------------------------------------------------------------------
(* NormSpec: convertToMemoryMessages on every short list of raw turns *)

NormInit ==
  /\ normInput \in SeqsUpTo(RawTurns, MaxLen)
  /\ normResult = [threw |-> FALSE, out |-> <<>>, uuids |-> 0]
  /\ normPc = "ready" /\ plugin = RegisteredPlugin /\ detected = NoDetection
  /\ summaryViewId = Null /\ uuidCounter = 0
  /\ entries = {} /\ indexed = {} /\ textDist = NoDist
  /\ views = {} /\ summaries = <<>> /\ nextViewId = 1
  /\ failures = 0 /\ deletions = 0
  /\ task = [t \in Slots |-> IdleTask]
  /\ svc = IdleSvc
  /\ toolLog = <<>> /\ viewLog = NoViewLog
  /\ conv = NoConv /\ lastContext = NoRecall /\ wmWrites = {} /\ now = 1 /\ hookCalls = 0

Normalize ==
  /\ normPc = "ready"
  /\ normResult' = convertToMemoryMessages(normInput, uuidCounter, now)
  /\ uuidCounter' = normResult'.uuids
  /\ normPc' = "done"
  /\ UNCHANGED <<normInput, plugin, detected, summaryViewId, backendVars, task, svc, toolLog,
                 viewLog, convVars>>

\* a MemoryMessage read back as a conversation turn: role, content and id
\* are strings, and it has no timestamp property
MessageAsTurn(m) == Turn(StrVal(m.role), StrContent(m.content), IdVal(m.id), 0)

\* the normaliser applied to the list it has just produced
NormalizeAgain ==
  /\ normPc = "done" /\ ~normResult.threw
  /\ normResult' = convertToMemoryMessages(
                      [i \in 1..Len(normResult.out) |-> MessageAsTurn(normResult.out[i])],
                      uuidCounter, now)
  /\ uuidCounter' = normResult'.uuids
  /\ normPc' = "again"
  /\ UNCHANGED <<normInput, plugin, detected, summaryViewId, backendVars, task, svc, toolLog,
                 viewLog, convVars>>

NormNext == Normalize \/ NormalizeAgain

NormSpec == NormInit /\ [][NormNext]_vars

(* CLAIMS *)
----------------------------------------------------------------------------
(* Observations on the tool outcomes *)

\* the call's search answered (with matches or with none)
SearchReturned(o) == o.action \in {"found0", "candidates", "duplicate", "created"} \/ o.hits # <<>>

Above90(hits) == {i \in 1..Len(hits) : Score(hits[i]) > 90}

\* call i + 1 is made right after call i, with no other call in flight meanwhile
InSuccession(i) ==
  /\ i + 1 <= Len(toolLog)
  /\ toolLog[i].solo /\ toolLog[i + 1].solo
  /\ toolLog[i + 1].began = i

SameTextStoredTwice(i) ==
  /\ InSuccession(i)
  /\ toolLog[i].tool = "memory_store" /\ toolLog[i + 1].tool = "memory_store"
  /\ toolLog[i].text = toolLog[i + 1].text
  /\ toolLog[i].action = "created"
  /\ toolLog[i + 1].action # "error"

EntriesWithText(text) == {e \in entries : e.text = text}

\* a text that carries a context block of the pre-turn hook
HasContextBlock(text) == Includes(text, RelevantOpenTag) \/ Includes(text, SummaryOpenTag)

\* C1 as stated: no message written to working memory by a capture carries a
\* context block produced by the recall hook (the <user-summary ...> block or
\* the <relevant-memories query-specific="true"> block).
C1_InjectedContextNeverCaptured ==
  \A w \in wmWrites :
    \A i \in 1..Len(w.messages) : ~HasContextBlock(w.messages[i].content)

\* C2 as stated: a successful capture of a session writes only turns that no
\* earlier capture of the same session has written.
C2_CaptureWritesOnlyNewTurns ==
  \A w \in wmWrites : Ids(w.messages) \cap w.before = {}

\* C3 as stated: storing the same text twice in succession returns
\* `duplicate` on the second call with the first call's id, and the backend
\* then holds exactly one entry for that text.
C3_DuplicateOnSecondStore ==
  \A i \in 1..Len(toolLog) :
    SameTextStoredTwice(i) =>
      /\ toolLog[i + 1].action = "duplicate"
      /\ toolLog[i + 1].id = toolLog[i].id
      /\ (Len(toolLog) = i + 1 /\ (\A t \in Slots : ~Busy(t))
            => Cardinality(EntriesWithText(toolLog[i].text)) = 1)

\* C3 amended: when the second call's search returns the first call's entry
\* as its top hit (the entry is visible to search by then), the second call
\* returns `duplicate` with the first call's id and creates no entry.
C3_DuplicateOnceIndexed ==
  \A i \in 1..Len(toolLog) :
    (/\ SameTextStoredTwice(i)
     /\ toolLog[i + 1].hits # <<>>
     /\ toolLog[i + 1].hits[1].id = toolLog[i].id)
    => /\ toolLog[i + 1].action = "duplicate"
       /\ toolLog[i + 1].id = toolLog[i].id
       /\ toolLog[i + 1].created = {}

C3_Witness ==
  \E i \in 1..Len(toolLog) :
    /\ SameTextStoredTwice(i)
    /\ toolLog[i + 1].hits # <<>>
    /\ toolLog[i + 1].hits[1].id = toolLog[i].id
    /\ toolLog[i + 1].action = "duplicate"
    /\ Cardinality(EntriesWithText(toolLog[i].text)) = 1

\* C4 as stated: memory_store reports `duplicate` (with the existing entry's
\* id and text) and creates nothing exactly when the top hit of its search
\* has score >= 0.95, for every distance including 0.05 and a missing one.
C4_DuplicateIffScoreAtLeast95 ==
  /\ \A i \in 1..Len(toolLog) :
       LET o == toolLog[i] IN
       (o.tool = "memory_store" /\ o.action \in {"duplicate", "created"})
       => /\ (o.action = "duplicate") <=> (o.hits # <<>> /\ Score(o.hits[1]) >= 95)
          /\ o.action = "duplicate" => o.id = o.hits[1].id /\ o.created = {}
  /\ \A t \in Slots :
       (task[t].kind = "memory_store" /\ task[t].pc = "create")
       => ~(task[t].hits # <<>> /\ Score(task[t].hits[1]) >= 95)

\* C5 as stated: whenever no returned match or more than one returned match
\* of memory_forget by query scores above 0.9, the outcome is a candidate
\* list and the call deletes nothing.
C5_CandidatesUnlessOneAbove90 ==
  \A i \in 1..Len(toolLog) :
    LET o == toolLog[i] IN
    (o.tool = "memory_forget" /\ SearchReturned(o) /\ Cardinality(Above90(o.hits)) # 1)
    => o.action = "candidates" /\ o.deleted = {}

\* C5 amended: memory_forget by query issues a delete only when exactly one
\* returned match scores above 0.9; otherwise the call deletes nothing and
\* its outcome is the candidate list, or `found: 0` when the search returned
\* no match at all.
C5_NoDeleteUnlessOneAbove90 ==
  /\ \A i \in 1..Len(toolLog) :
       LET o == toolLog[i] IN
       (o.tool = "memory_forget" /\ SearchReturned(o) /\ Cardinality(Above90(o.hits)) # 1)
       => /\ o.deleted = {}
          /\ o.action = (IF o.hits = <<>> THEN "found0" ELSE "candidates")
  /\ \A t \in Slots :
       (task[t].kind = "memory_forget" /\ task[t].pc = "deleteMatch")
       => Cardinality(Above90(task[t].hits)) = 1

C5_Witness ==
  \E i \in 1..Len(toolLog) :
    /\ toolLog[i].tool = "memory_forget"
    /\ toolLog[i].action = "candidates"
    /\ Cardinality(Above90(toolLog[i].hits)) = 2
    /\ toolLog[i].deleted = {}
    /\ \A h \in 1..2 : \E e \in entries : e.id = toolLog[i].hits[h].id

\* C6 as stated: whenever exactly one of the returned matches of
\* memory_forget by query scores above 0.9, that match is deleted and the
\* outcome is `deleted` with its id, however many lower matches come with it
\* (the call may end in the error outcome only when the delete itself fails).
C6_SingleConfidentMatchDeleted ==
  \A i \in 1..Len(toolLog) :
    LET o == toolLog[i] IN
    (o.tool = "memory_forget" /\ SearchReturned(o) /\ Cardinality(Above90(o.hits)) = 1)
    => \/ o.action = "error"
       \/ /\ o.action = "deleted"
          /\ \E h \in Above90(o.hits) : o.id = o.hits[h].id /\ o.deleted = {o.id}

----------------------------------------------------------------------------
(* Observations on the normaliser *)

\* C7 as stated: once a call with the cached view id has answered not-found,
\* no later partition listing or refresh is issued with that id.
C7_StaleIdNeverUsedAgain == ~viewLog.reused

\* C8 as stated: the backend never holds more than one summary view of the
\* configured name created by this plugin.
C8_AtMostOnePluginView ==
  Cardinality({v \in NamedViews : v.by = "plugin"}) <= 1

\* C9 as stated: once service start is over, a pre-turn hook that begins
\* with the cached id empty and whose backend call is answered re-resolves
\* the id: when it returns, the id is resolved.
C9_HookResolvesEmptyId ==
  [][\A t \in Slots :
       (/\ svc.pc = "done"
        /\ task[t].kind = "before_agent_start" /\ task[t].pc = "search"
        /\ task[t].view = Null
        /\ task'[t].kind = "idle"
        /\ failures' = failures)
       => summaryViewId' # Null]_vars

\* C10: for every list of raw turns, null, non-object and malformed elements
\* included, the normaliser does not throw and emits only entries whose role
\* is user or assistant, whose text is non-empty after trimming and does not
\* contain the injected-context marker.
C10_NormalizerTotalAndFiltered ==
  normPc = "done" =>
    /\ ~normResult.threw
    /\ \A i \in 1..Len(normResult.out) :
         LET m == normResult.out[i] IN
         /\ m.role \in {"user", "assistant"}
         /\ Trim(m.content) # NoText
         /\ ~Includes(m.content, InjectedMarker)

C10_Witness ==
  /\ normPc = "done"
  /\ Len(normInput) = 2
  /\ normInput[1].kind = "null"
  /\ Includes(extractTextContent(normInput[2].content), RelevantOpenTag)
  /\ Len(normResult.out) = 1

\* the turns of the input that the normaliser keeps, in order
KeptTurns == SelectSeq(normInput, Eligible)

\* C11 as stated: the created_at of an emitted message is the timestamp of
\* its source turn when the turn carries one, and the wall clock of the
\* capture only when it carries none.
C11_CreatedAtIsTurnTimestamp ==
  (normPc = "done" /\ ~normResult.threw) =>
    \A i \in 1..Len(normResult.out) :
      i <= Len(KeptTurns) =>
        normResult.out[i].created_at =
          toISOString(IF KeptTurns[i].timestamp # 0 THEN KeptTurns[i].timestamp ELSE now)

\* C12 as stated: with a working-memory session override configured, every
\* working-memory write goes to the session named by the override, whatever
\* sessionKey the hook was called with.
C12_WritesUseSessionOverride ==
  cfg.workingMemorySessionId # NoKey =>
    \A w \in wmWrites : w.session = [key |-> cfg.workingMemorySessionId, at |-> 0]

\* the newest instant among the messages of a write
NewestWritten(w) ==
  CHOOSE n \in {w.messages[i].created_at.iso : i \in 1..Len(w.messages)} :
    \A i \in 1..Len(w.messages) : w.messages[i].created_at.iso <= n

ForgetByIdOutcomes ==
  {i \in 1..Len(toolLog) : toolLog[i].tool = "memory_forget" /\ toolLog[i].memoryId # NoId}

\* C14: memory_forget given a memoryId makes no search, issues the delete for
\* exactly that id, reports `deleted` with that id only when the backend
\* carried the delete out, and reports the error outcome, with nothing
\* deleted, when the backend fails it.
C14_ForgetByIdReportsBackendResult ==
  /\ \A i \in ForgetByIdOutcomes :
       LET o == toolLog[i] IN
       /\ o.at = "deleteById" /\ o.hits = <<>>
       /\ o.action \in {"deleted", "error"}
       /\ o.action = "deleted" => o.id = o.memoryId /\ o.deleted = {o.memoryId}
       /\ o.action = "error" => o.deleted = {}
  /\ \A t \in Slots :
       (task[t].kind = "memory_forget" /\ task[t].arg # NoId)
       => task[t].pc = "deleteById" /\ task[t].id = task[t].arg

C14_Witness ==
  \E i, j \in ForgetByIdOutcomes :
    /\ toolLog[i].action = "deleted"
    /\ toolLog[i].memoryId \notin {e.id : e \in entries}
    /\ toolLog[j].action = "error"
    /\ toolLog[j].memoryId \in {e.id : e \in entries}

----------------------------------------------------------------------------
(* Observations on the latest return of the pre-turn hook *)

\* the hook was called with a prompt that passes its length test and whose
\* stripped text is long enough to search for
Searchable(prompt) ==
  /\ prompt # NoText /\ StrLen(prompt) >= 5
  /\ stripEnvelopeForSearch(prompt) # NoText
  /\ StrLen(stripEnvelopeForSearch(prompt)) >= 5

IsSummaryBlock(b) ==
  /\ Len(b) > Len(SummaryOpenTag)
  /\ SubSeq(b, 1, Len(SummaryOpenTag)) = SummaryOpenTag
  /\ b[Len(b)] = "</user-summary>"

IsQueryBlock(b) ==
  /\ Len(b) > Len(RelevantOpenTag)
  /\ SubSeq(b, 1, Len(RelevantOpenTag)) = RelevantOpenTag
  /\ b[Len(b)] = "</relevant-memories>"

\* the memory of hit h is listed in the query-specific block
Listed(h) ==
  lastContext.query # <<>> /\ Includes(lastContext.query[1], <<"\n", "- ">> \o h.text \o <<"\n">>)

Passing(results) == {i \in 1..Len(results) : Score(results[i]) >= cfg.minScore}

\* C15: the returned context is the present components in fixed order, the
\* summary block then the query-specific block, with one blank line between
\* them; with no component present the hook returns nothing.
C15_ContextIsSummaryThenQuery ==
  LET r == lastContext IN
  /\ Len(r.summary) <= 1 /\ Len(r.query) <= 1
  /\ \A i \in 1..Len(r.summary) : IsSummaryBlock(r.summary[i])
  /\ \A i \in 1..Len(r.query) : IsQueryBlock(r.query[i])
  /\ r.text = (IF r.summary = <<>> /\ r.query = <<>> THEN NoText
               ELSE IF r.query = <<>> THEN r.summary[1]
               ELSE IF r.summary = <<>> THEN r.query[1]
               ELSE r.summary[1] \o <<"\n", "\n">> \o r.query[1])

C15_Witness ==
  /\ lastContext.summary # <<>> /\ lastContext.query # <<>>
  /\ Includes(lastContext.text, <<"</user-summary>", "\n", "\n", "<relevant-memories">>)

\* C16: the components are independent.  Whatever the partition fetch did
\* (skipped, failed, not-found with or without a successful re-creation,
\* listed or empty), a searchable prompt gets its search, and the block of
\* an answered search is in the returned context; whatever the search did, a
\* summary block that was built is in the returned context.
C16_ComponentsIndependent ==
  LET r == lastContext IN
  /\ Searchable(r.prompt) => r.search \in {"failed", "answered"}
  /\ (r.search = "answered" /\ Passing(r.results) # {})
       => r.query # <<>> /\ Includes(r.text, r.query[1])
  /\ r.summary # <<>> => Includes(r.text, r.summary[1])

C16_Witness ==
  /\ lastContext.fetch = "notfound" /\ summaryViewId = Null /\ failures > 0
  /\ lastContext.search = "answered" /\ lastContext.query # <<>>
  /\ lastContext.text = lastContext.query[1]

\* C17: a memory is listed in the query-specific block exactly when its score
\* max(0, 1 - distance) is at least the configured minimum score, and the
\* block is omitted when no result passes.
C17_ListedIffScoreAtLeastMin ==
  LET r == lastContext IN
  r.search = "answered" =>
    /\ \A i \in 1..Len(r.results) : Listed(r.results[i]) <=> i \in Passing(r.results)
    /\ (r.query = <<>>) <=> (Passing(r.results) = {})

C17_Witness ==
  LET r == lastContext IN
  /\ r.search = "answered" /\ Len(r.results) = 2
  /\ \E i, j \in 1..2 :
       /\ Score(r.results[i]) = cfg.minScore /\ Listed(r.results[i])
       /\ Score(r.results[j]) > cfg.minScore /\ Listed(r.results[j])

\* partition p belongs to the configured user and namespace, as far as the
\* configured grouping fields go
MatchesGroupFields(p) ==
  /\ (\E i \in 1..Len(cfg.summaryGroupBy) : cfg.summaryGroupBy[i] = "user_id")
       => p.user_id = cfg.userId
  /\ (\E i \in 1..Len(cfg.summaryGroupBy) : cfg.summaryGroupBy[i] = "namespace")
       => p.namespace = cfg.namespace

\* the index of the partition C18 selects from a list, 0 when there is none
Selected(ps) ==
  LET matching == {i \in 1..Len(ps) : MatchesGroupFields(ps[i])} IN
  IF matching # {} THEN CHOOSE i \in matching : \A j \in matching : i <= j
  ELSE IF ps # <<>> THEN 1 ELSE 0

\* the summary block carries the summary and the memory count of partition p
BlockOf(b, p) ==
  /\ Includes(b, <<"\n">> \o p.summary \o <<"\n", "</user-summary>">>)
  /\ Includes(b, <<" memories=", "\"", ToString(p.memory_count), "\"">>)

\* C18: the summary block comes from the first partition matching every
\* configured grouping field, or from the first returned partition when none
\* matches; there is no block when the list is empty or the selected
\* partition has memory_count = 0.
C18_PartitionSelection ==
  LET r == lastContext
      k == Selected(r.partitions) IN
  r.fetch = "listed" =>
    /\ (k = 0 \/ (k # 0 /\ r.partitions[k].memory_count = 0)) => r.summary = <<>>
    /\ (k # 0 /\ r.partitions[k].memory_count > 0 /\ r.partitions[k].summary # NoText)
         => r.summary # <<>>
    /\ r.summary # <<>> => k # 0 /\ BlockOf(r.summary[1], r.partitions[k])

C18_Witness ==
  /\ lastContext.fetch = "listed" /\ lastContext.partitions = MixedPartitions
  /\ Selected(lastContext.partitions) = 3
  /\ lastContext.summary # <<>> /\ BlockOf(lastContext.summary[1], MixedPartitions[3])

\* C19 as stated: with a userId and namespace configured and grouped by, the
\* summary injected into a turn comes from a partition of that user and
\* namespace.
C19_SummaryOfConfiguredUserOnly ==
  LET r == lastContext IN
  r.summary # <<>> =>
    \E i \in 1..Len(r.partitions) :
      /\ r.partitions[i].user_id = cfg.userId
      /\ r.partitions[i].namespace = cfg.namespace
      /\ BlockOf(r.summary[1], r.partitions[i])

----------------------------------------------------------------------------
(* Backend failures and the handler that made the call *)

ToolKinds == {"memory_store", "memory_forget", "memory_recall"}

\* the tool call in slot t completes on this step with the error outcome
ToolReturnsError(t) ==
  /\ ~Busy(t)'
  /\ Len(toolLog') = Len(toolLog) + 1
  /\ toolLog'[Len(toolLog')].action = "error"
  /\ toolLog'[Len(toolLog')].tool = task[t].kind

\* the pre-turn hook in slot t goes on to its next component or returns what
\* it has for its prompt
RecallCarriesOn(t) ==
  \/ task'[t].kind = "before_agent_start" /\ task'[t].pc \in {"search", "assign"}
  \/ ~Busy(t)' /\ lastContext'.prompt = task[t].text
               /\ lastContext'.text = PrependContext(task[t].parts)

\* the post-turn hook in slot t returns, or goes on to store the id that
\* ensureSummaryView resolved to null
CaptureCarriesOn(t) ==
  \/ ~Busy(t)' /\ wmWrites' = wmWrites
  \/ task'[t].kind = "agent_end" /\ task'[t].pc = "assign" /\ task'[t].pend = Null

\* C20: a backend call that fails never escapes the handler that made it: a
\* tool returns its structured error result, a hook returns (with what it
\* has gathered) or carries on, service start ends.
C20_BackendFailureNeverEscapes ==
  [][failures' > failures =>
       /\ \A t \in Slots :
            /\ task[t].kind \in ToolKinds => ToolReturnsError(t)
            /\ task[t].kind = "before_agent_start" => RecallCarriesOn(t)
            /\ task[t].kind = "agent_end" => CaptureCarriesOn(t)
       /\ svc.pc \notin {"stopped", "done"} =>
            svc'.pc = "done" \/ (svc'.pc = "assign" /\ svc'.pend = Null)
       /\ \/ \E t \in Slots : Busy(t)
          \/ svc.pc \notin {"stopped", "done"}]_vars

C20_Witness ==
  /\ failures > 0
  /\ \E i \in 1..Len(toolLog) :
       toolLog[i].tool = "memory_recall" /\ toolLog[i].action = "error"
       /\ toolLog[i].at = "search"

----------------------------------------------------------------------------
(* Inputs the handlers turn away at entry *)

\* prompts the pre-turn hook is called with that are missing or under 5 characters
ShortPrompts == {p \in HookPrompts : p = NoText \/ StrLen(p) <= 4}

\* C21: called with a missing prompt or one shorter than 5 characters, the
\* pre-turn hook returns nothing, starts no partition listing and no search,
\* and leaves the cached summary-view id as it was.
C21_ShortPromptIsNoOp ==
  [][\A t \in Slots, p \in ShortPrompts :
       HostRecall(t, p) =>
         /\ lastContext'.text = NoText
         /\ lastContext'.fetch = "none" /\ lastContext'.search = "none"
         /\ task' = task
         /\ failures' = failures
         /\ summaryViewId' = summaryViewId]_vars

C21_Witness ==
  /\ lastContext.prompt = <<"hi">> /\ lastContext.text = NoText
  /\ lastContext.fetch = "none" /\ lastContext.search = "none"
  /\ summaryViewId # Null /\ ViewExists(summaryViewId)
  /\ \A t \in Slots : ~Busy(t)

\* the step starts no handler and makes no backend call: the handlers in
\* flight stay where they are, and the backend is as it was
NothingStarted ==
  /\ \A u \in Slots : task'[u].kind = task[u].kind /\ task'[u].pc = task[u].pc
  /\ entries' = entries /\ indexed' = indexed
  /\ failures' = failures /\ uuidCounter' = uuidCounter

\* the step completes a call of `tool` with the outcome `action`
Answers(tool, action) ==
  /\ Len(toolLog') = Len(toolLog) + 1
  /\ SubSeq(toolLog', 1, Len(toolLog)) = toolLog
  /\ toolLog'[Len(toolLog')].tool = tool
  /\ toolLog'[Len(toolLog')].action = action

\* C22: memory_store called with an empty or whitespace-only text returns
\* the structured rejection (details {error: "empty_text", action:
\* "rejected"}) and issues neither the duplicate search nor a create.
C22_EmptyTextRejected ==
  [][\A t \in Slots, text \in BlankTexts :
       StoreBegin(t, text) =>
         /\ Answers("memory_store", "rejected")
         /\ toolLog'[Len(toolLog')].created = {} /\ toolLog'[Len(toolLog')].hits = <<>>
         /\ NothingStarted]_vars

C22_Witness ==
  \E i \in 1..Len(toolLog) :
    /\ toolLog[i].tool = "memory_store" /\ toolLog[i].text = Blank
    /\ toolLog[i].action = "rejected" /\ toolLog[i].at = "idle"
    /\ EntriesWithText(Blank) = {}

\* C24: memory_forget called with neither a memoryId nor a query returns the
\* structured missing_param outcome and issues neither a search nor a delete.
C24_MissingParamReported ==
  [][\A t \in Slots :
       ForgetEntry(t, NoId, NoText) =>
         /\ Answers("memory_forget", "missing_param")
         /\ toolLog'[Len(toolLog')].deleted = {} /\ toolLog'[Len(toolLog')].hits = <<>>
         /\ NothingStarted]_vars

C24_Witness ==
  \E i \in 1..Len(toolLog) :
    /\ toolLog[i].tool = "memory_forget" /\ toolLog[i].action = "missing_param"
    /\ toolLog[i].memoryId = NoId /\ toolLog[i].text = NoText
    /\ entries # {}

----------------------------------------------------------------------------
(* Entries written by memory_store *)

\* entries created by the plugin: their ids are generated
CreatedEntries == {e \in entries : e.id >= UuidBase}

\* C23 as stated: an entry created by a memory_store call that gave no
\* category carries the single tag detected from its text by the ordered
\* rules (preference, decision, entity, fact, else other).
C23_DefaultCategoryIsDetected ==
  \A e \in CreatedEntries : e.topics = <<detectCategory(e.text)>>

----------------------------------------------------------------------------
(* Registration *)

\* a configuration whose extraction strategy is a name outside the four
\* strategies, or is "custom" with no prompt to go with it
FatalConfig(value) ==
  /\ value.kind = "object"
  /\ value.extractionStrategy.t = "string"
  /\ \/ value.extractionStrategy.v \notin {"discrete", "summary", "preferences", "custom"}
     \/ /\ value.extractionStrategy.v = "custom"
        /\ value.customPrompt \in {Undef, StrVal("")}

\* no handler of the plugin has run and the backend has not been called
Untouched ==
  /\ \A t \in Slots : ~Busy(t)
  /\ svc = IdleSvc /\ summaryViewId = Null
  /\ toolLog = <<>> /\ lastContext = NoRecall /\ wmWrites = {}
  /\ failures = 0 /\ hookCalls = 0 /\ uuidCounter = 0
  /\ Cardinality(entries) = 1 /\ views = {ForeignView}

----------------------------------------------------------------------------
(* Scores *)

\* max(0, 1 - distance) of a distance in hundredths
ClampedScore(d) == IF d >= 100 THEN 0 ELSE 100 - d

\* outcomes that carry the scored results: the candidates of memory_forget
\* and the memories of memory_recall
ScoredOutcomes ==
  {i \in 1..Len(toolLog) :
     toolLog[i].tool \in {"memory_forget", "memory_recall"} /\ toolLog[i].hits # <<>>
     /\ toolLog[i].action \in {"candidates", "found"}}

\* C26: every score memory_forget and memory_recall report is max(0, 1 -
\* distance) of the distance the backend returned and lies in [0, 1], and
\* the pre-turn hook lists a memory exactly when that value is at least the
\* minimum score.
C26_ScoreIsClampedComplement ==
  /\ \A i \in ScoredOutcomes :
       LET o == toolLog[i] IN
       /\ Len(o.scores) = Len(o.hits)
       /\ \A j \in 1..Len(o.hits) :
            o.hits[j].dist # NoDist =>
              /\ o.scores[j] = ClampedScore(o.hits[j].dist)
              /\ o.scores[j] \in 0..100
  /\ lastContext.search = "answered" =>
       \A j \in 1..Len(lastContext.results) :
         lastContext.results[j].dist # NoDist =>
           (Listed(lastContext.results[j])
              <=> ClampedScore(lastContext.results[j].dist) >= cfg.minScore)

C26_Witness ==
  \E i \in ScoredOutcomes :
    LET o == toolLog[i] IN
    /\ o.tool = "memory_forget" /\ Len(o.hits) = 2
    /\ o.hits[1].dist = 0 /\ o.scores[1] = 100
    /\ o.hits[2].dist = 150 /\ o.scores[2] = 0

----------------------------------------------------------------------------
(* The normaliser's output as a log *)

\* the ids, roles and texts of a list of messages, in order
IdRoleText(out) == [i \in 1..Len(out) |-> <<out[i].id, out[i].role, out[i].content>>]

\* C27: the normaliser applied to its own output gives the same messages:
\* the same ids, roles and texts in the same order, none dropped or added.
C27_NormalizerIdempotent ==
  [][(normPc = "done" /\ normPc' = "again") =>
       /\ ~normResult'.threw
       /\ IdRoleText(normResult'.out) = IdRoleText(normResult.out)
       /\ uuidCounter' = uuidCounter]_vars

C27_Witness ==
  /\ normPc = "again" /\ Len(normResult.out) = 2
  /\ normResult.out[1].id < UuidBase /\ normResult.out[2].id >= UuidBase
  /\ normResult.out[1].content = <<"Hello", "\n", "there">>

\* C28: an emitted message carries the id of its source turn when that id is
\* a string, and otherwise a generated id that differs from every other
\* generated id.
C28_IdPropagatedOrFresh ==
  (normPc = "done" /\ ~normResult.threw) =>
    /\ Len(normResult.out) = Len(KeptTurns)
    /\ \A i \in 1..Len(normResult.out) :
         IF KeptTurns[i].id.t = "string"
         THEN normResult.out[i].id = KeptTurns[i].id.v
         ELSE /\ normResult.out[i].id >= UuidBase
              /\ \A j \in 1..Len(normResult.out) :
                   (j # i /\ KeptTurns[j].id.t # "string")
                     => normResult.out[j].id # normResult.out[i].id

C28_Witness ==
  /\ normPc = "done" /\ Len(normResult.out) = 2
  /\ KeptTurns[1].id.t # "string" /\ KeptTurns[2].id.t # "string"
  /\ normResult.out[1].id # normResult.out[2].id
  /\ uuidCounter = 2

\* C29 as stated: no two messages of the normaliser's output share an id,
\* also when the input holds the same turn (the same id) more than once.
C29_OutputHasNoDuplicateIds ==
  normPc = "done" =>
    \A i, j \in 1..Len(normResult.out) :
      i # j => normResult.out[i].id # normResult.out[j].id

----------------------------------------------------------------------------
(* Calls of memory_store that overlap *)

\* calls i and j of the same text overlapped, and the search of neither
\* returned an entry of that text
Interleaved(i, j) ==
  /\ i < j /\ j <= Len(toolLog)
  /\ toolLog[i].tool = "memory_store" /\ toolLog[j].tool = "memory_store"
  /\ toolLog[i].text = toolLog[j].text
  /\ toolLog[j].began < i
  /\ \A k \in {i, j} : \A h \in 1..Len(toolLog[k].hits) :
       toolLog[k].hits[h].text # toolLog[k].text

\* C30 as stated: of two memory_store calls for the same text whose backend
\* calls interleave at most one reports `created`, and the backend is left
\* with at most one entry for the text.
C30_InterleavedStoresCreateOnce ==
  \A i, j \in 1..Len(toolLog) :
    Interleaved(i, j) =>
      /\ ~(toolLog[i].action = "created" /\ toolLog[j].action = "created")
      /\ Cardinality(EntriesWithText(toolLog[i].text)) <= 1

----------------------------------------------------------------------------
(* The refresh trigger of the post-turn hook *)

\* the working memory holds the write of the capture in slot t
Written(t) ==
  \E w \in wmWrites : w.session = task[t].session /\ w.messages = task[t].msgs

\* the positions of the post-turn hook after its write
AfterWrite == {"refresh", "ensureList", "ensureCreate", "assign"}

\* C31: the post-turn hook triggers the refresh only from its write, once
\* that write has succeeded and with the id that is cached then; a write that
\* fails ends the handler with no refresh; whatever the refresh and the
\* re-creation of the view answer, the write stays and the handler returns.
C31_RefreshOnlyAfterWrite ==
  [][\A t \in Slots :
       /\ (task'[t].pc = "refresh" /\ task[t].pc # "refresh") =>
            /\ task[t].kind = "agent_end" /\ task[t].pc = "put"
            /\ failures' = failures
            /\ summaryViewId # Null /\ task'[t].view = summaryViewId
            /\ Written(t)'
       /\ (task[t].kind = "agent_end" /\ task[t].pc = "put" /\ task'[t] # task[t]
             /\ failures' > failures) =>
            ~Busy(t)' /\ wmWrites' = wmWrites
       /\ (task[t].kind = "agent_end" /\ task[t].pc \in AfterWrite) =>
            /\ Written(t) => wmWrites' = wmWrites \/ task'[t] = task[t]
            /\ task'[t].kind = "idle" \/ (task'[t].kind = "agent_end" /\ task'[t].pc \in AfterWrite)]_vars

\* a refresh is in flight for a capture whose write the working memory holds
C31_Witness ==
  \E t \in Slots :
    /\ task[t].kind = "agent_end" /\ task[t].pc = "refresh"
    /\ task[t].view # Null /\ Written(t)

----------------------------------------------------------------------------
(* One run of ensureSummaryView, in a hook (its locals are r) or in service
   start *)

\* the list answered on this step: views is the listing
ListAnswered(r, r2) ==
  /\ views' = views
  /\ IF failures' > failures THEN r2.pc = "assign" /\ r2.pend = Null
     ELSE IF NamedViews # {} THEN r2.pc = "assign" /\ r2.pend \in {v.id : v \in NamedViews}
     ELSE r2.pc = "ensureCreate"

\* the create answered on this step
CreateAnswered(r, r2) ==
  /\ r2.pc = "assign"
  /\ IF failures' > failures THEN views' = views /\ r2.pend = Null
     ELSE \E v \in views' \ views :
            /\ views' = views \cup {v}
            /\ v.name = cfg.summaryViewName /\ r2.pend = v.id

EnsureSteps(r, r2) ==
  /\ r.pc = "ensureList" => ListAnswered(r, r2)
  /\ r.pc = "ensureCreate" => CreateAnswered(r, r2)
  /\ r.pc = "assign" => views' = views /\ summaryViewId' = r.pend

\* C32: a run of ensureSummaryView whose listing holds a view of the
\* configured name creates nothing and returns that view's id; a run whose
\* listing holds none issues one create and returns the id the backend gave
\* the new view; no other step of the plugin creates a view.
C32_EnsureAdoptsOrCreatesOne ==
  [][/\ \A t \in Slots : task'[t] # task[t] => EnsureSteps(task[t], task'[t])
     /\ svc' # svc => EnsureSteps(svc, svc')
     /\ views' \ views # {} =>
          \/ svc.pc = "ensureCreate" /\ svc' # svc
          \/ \E t \in Slots : task[t].pc = "ensureCreate" /\ task'[t] # task[t]]_vars

\* the view was deleted behind the plugin, a hook found out, listed none,
\* created one and cached its id
C32_Witness ==
  /\ viewLog.stale # {}
  /\ \E v \in NamedViews : v.by = "plugin" /\ summaryViewId = v.id
  /\ Cardinality(NamedViews) = 1

----------------------------------------------------------------------------
(* The pre-turn hook after its cached view id answered not-found *)

\* the pre-turn hook in slot t has had not-found for the id it listed with
SawNotFound(t) == task[t].kind = "before_agent_start" /\ task[t].fetch = "notfound"

\* C33: from the not-found answer on, a pre-turn call lists no partitions
\* again and issues no call with a cached id, whatever id ensureSummaryView
\* resolves; the id it stores is the one ensureSummaryView returned, never
\* the id that answered not-found; and what it returns has no summary
\* component.
C33_NoInlineRetryAfterNotFound ==
  [][\A t \in Slots :
       (SawNotFound(t) /\ task'[t] # task[t]) =>
         /\ task'[t].pc # "partitions"
         /\ viewLog' = viewLog
         /\ task[t].parts = <<>> /\ task[t].partitions = <<>>
         /\ task[t].pc = "assign" =>
              summaryViewId' = task[t].pend /\ summaryViewId' # task[t].view
         /\ ~Busy(t)' =>
              /\ lastContext'.prompt = task[t].text /\ lastContext'.fetch = "notfound"
              /\ lastContext'.summary = <<>>
              /\ ~Includes(lastContext'.text, SummaryOpenTag)]_vars

\* a call that had not-found has returned its query-specific memories alone,
\* and the cached id is that of the view made in its place
C33_Witness ==
  /\ lastContext.fetch = "notfound" /\ lastContext.search = "answered"
  /\ lastContext.summary = <<>> /\ lastContext.text # NoText
  /\ summaryViewId # Null /\ summaryViewId \notin viewLog.stale
  /\ \E v \in NamedViews : v.id = summaryViewId /\ v.by = "plugin"

----------------------------------------------------------------------------
(* What one call of memory_forget deletes *)

EntryIds(es) == {e.id : e \in es}

\* the ids the call in slot t may delete: the memoryId it was given, else the
\* ids its own search returned
Deletable(t) ==
  IF task[t].arg # NoId THEN {task[t].arg}
  ELSE {task[t].hits[i].id : i \in 1..Len(task[t].hits)}

\* the call in slot t is at its DELETE
AtDelete(t) == task[t].kind = "memory_forget" /\ task[t].pc \in {"deleteById", "deleteMatch"}

\* C34: a call of memory_forget removes at most one entry, on its single
\* DELETE, and that entry's id is the memoryId given or else an id its own
\* search returned; given a memoryId, with or without a query, it runs no
\* search and reports that id; nothing else removes an entry.
C34_ForgetDeletesAtMostItsOne ==
  [][/\ EntryIds(entries) \ EntryIds(entries') # {} =>
          \E t \in Slots :
            /\ AtDelete(t) /\ ~Busy(t)'
            /\ Cardinality(EntryIds(entries) \ EntryIds(entries')) = 1
            /\ EntryIds(entries) \ EntryIds(entries') \subseteq Deletable(t)
            /\ Answers("memory_forget", "deleted")
            /\ toolLog'[Len(toolLog')].deleted = EntryIds(entries) \ EntryIds(entries')
            /\ toolLog'[Len(toolLog')].id = task[t].id
     /\ \A t \in Slots :
          (task'[t].kind = "memory_forget" /\ task'[t].arg # NoId) =>
            /\ task'[t].pc = "deleteById" /\ task'[t].hits = <<>>
            /\ task'[t].id = task'[t].arg]_vars

\* a call given both a memoryId and a query has deleted that id alone
C34_Witness ==
  \E i \in 1..Len(toolLog) :
    /\ toolLog[i].tool = "memory_forget" /\ toolLog[i].action = "deleted"
    /\ toolLog[i].memoryId # NoId /\ toolLog[i].text # NoText
    /\ toolLog[i].at = "deleteById" /\ toolLog[i].hits = <<>>
    /\ toolLog[i].deleted = {toolLog[i].memoryId}
    /\ entries # {} /\ toolLog[i].memoryId \notin EntryIds(entries)

----------------------------------------------------------------------------
(* What one call of memory_store writes *)

\* a call of memory_store answers on this step
StoreAnswers ==
  /\ Len(toolLog') = Len(toolLog) + 1
  /\ toolLog'[Len(toolLog')].tool = "memory_store"

\* the step adds to the backend the one entry e and changes no other
AddsOnly(e) == e \notin entries /\ entries' = entries \cup {e}

\* C35: the backend gains an entry exactly on the step a memory_store call
\* answers `created`: one entry, with the text given, the id the call reports
\* (an id no entry had) and a single category tag; a call that answers
\* `rejected`, `duplicate` or with an error adds nothing.
C35_CreatedIffOneEntryWritten ==
  [][/\ StoreAnswers =>
          LET o == toolLog'[Len(toolLog')] IN
          IF o.action = "created"
          THEN \E e \in entries' :
                 /\ AddsOnly(e)
                 /\ e.text = o.text /\ e.id = o.id
                 /\ o.id \notin EntryIds(entries)
                 /\ Len(e.topics) = 1 /\ e.topics[1] \in MEMORY_CATEGORIES
          ELSE o.action \in {"rejected", "duplicate", "error"} /\ entries' = entries
     /\ entries' \ entries # {} => StoreAnswers /\ toolLog'[Len(toolLog')].action = "created"]_vars

\* one call was turned away as a duplicate of the entry another had created
C35_Witness ==
  \E i, j \in 1..Len(toolLog) :
    /\ toolLog[i].tool = "memory_store" /\ toolLog[i].action = "created"
    /\ toolLog[j].tool = "memory_store" /\ toolLog[j].action = "duplicate"
    /\ toolLog[j].id = toolLog[i].id
    /\ entries = {[id |-> toolLog[i].id, text |-> toolLog[i].text, topics |-> <<"other">>]}

----------------------------------------------------------------------------
(* Events the post-turn hook turns away *)

\* the event is unsuccessful, carries no messages, or none of its turns
\* passes the normaliser's filters
NothingToCapture(success, messages) ==
  ~success \/ messages = <<>> \/ SelectSeq(messages, Eligible) = <<>>

\* C36: called with an unsuccessful event, with no messages or with turns
\* that are all filtered out, the post-turn hook returns at once: it puts
\* nothing in flight, makes no backend call, writes no working memory,
\* triggers no refresh and leaves the cached view id as it was.
C36_NothingToCaptureIsNoOp ==
  [][\A t \in Slots, success \in BOOLEAN, messages \in HookEvents, sessionKey \in SessionKeys :
       (HostCapture(t, success, messages, sessionKey) /\ NothingToCapture(success, messages)) =>
         /\ task' = task
         /\ wmWrites' = wmWrites
         /\ summaryViewId' = summaryViewId /\ viewLog' = viewLog
         /\ failures' = failures /\ uuidCounter' = uuidCounter
         /\ views' = views /\ entries' = entries
         /\ lastContext' = lastContext]_vars

\* the service has started and resolved the view id, the host has made one
\* hook call, and nothing was fetched, written or left in flight
C36_Witness ==
  /\ hookCalls = 1 /\ svc.pc = "done" /\ AllIdle
  /\ summaryViewId # Null /\ ViewExists(summaryViewId)
  /\ wmWrites = {} /\ lastContext = NoRecall
  /\ failures = 0 /\ viewLog = NoViewLog

----------------------------------------------------------------------------
(* Calls made with the cached view id that fail *)

\* the hook in slot t awaits the call it made with the cached id
UsesCachedId(r) ==
  \/ r.kind = "before_agent_start" /\ r.pc = "partitions"
  \/ r.kind = "agent_end" /\ r.pc = "refresh"

\* C37: when the partition listing or the refresh trigger fails with an
\* error other than not-found, the cached id stays as it is: it is not
\* cleared, not marked stale and ensureSummaryView is not run; and every call
\* a hook issues is made with the id cached at that moment.
C37_FailureKeepsCachedId ==
  [][\A t \in Slots :
       /\ (UsesCachedId(task[t]) /\ task'[t] # task[t] /\ failures' > failures) =>
            /\ summaryViewId' = summaryViewId
            /\ viewLog' = viewLog /\ views' = views
            /\ task'[t].pc \notin {"ensureList", "ensureCreate", "assign", "partitions", "refresh"}
       /\ (UsesCachedId(task'[t]) /\ ~UsesCachedId(task[t])) =>
            summaryViewId # Null /\ task'[t].view = summaryViewId]_vars

\* a pre-turn call whose partition listing failed has returned, and the
\* host's next call is listing with the id service start had resolved
C37_Witness ==
  /\ lastContext.fetch = "failed" /\ failures = 1 /\ hookCalls = 2
  /\ deletions = 0 /\ summaryViewId = EarlierView.id
  /\ \E t \in Slots : UsesCachedId(task[t]) /\ task[t].view = EarlierView.id
  /\ Cardinality({t \in Slots : Busy(t)}) = 1

----------------------------------------------------------------------------
(* What memory_recall returns *)

\* the calls of memory_recall whose search answered
RecallOutcomes ==
  {i \in 1..Len(toolLog) :
     toolLog[i].tool = "memory_recall" /\ toolLog[i].action \in {"count0", "found"}}

\* the score of a hit, from the distance the backend gave it
ScoreOfHit(h) == IF h.dist = NoDist THEN 100 ELSE ClampedScore(h.dist)

\* C38: every memory memory_recall returns is one the search returned with a
\* score of at least the minimum score; the count it reports is the number
\* of memories it returns; and when the search returned nothing, or nothing
\* of at least the minimum score, it reports count 0 and no memories.
C38_RecallReturnsPassingAndCounts ==
  \A i \in RecallOutcomes :
    LET o == toolLog[i] IN
    /\ \A j \in 1..Len(o.hits) :
         /\ ScoreOfHit(o.hits[j]) >= cfg.minScore
         /\ \E k \in 1..Len(o.raw) : o.raw[k] = o.hits[j]
    /\ o.count = Len(o.hits)
    /\ (\A k \in 1..Len(o.raw) : ScoreOfHit(o.raw[k]) < cfg.minScore) =>
         o.count = 0 /\ o.hits = <<>> /\ o.action = "count0"

\* of two memories the search returned, the one at distance 0.71 was left out
C38_Witness ==
  \E i \in RecallOutcomes :
    LET o == toolLog[i] IN
    /\ Len(o.raw) = 2 /\ o.raw[2].dist = 71
    /\ o.count = 1 /\ o.hits = <<o.raw[1]>>

----------------------------------------------------------------------------
(* The text the pre-turn hook searches with *)

\* the tokens of a bracketed header: what its whitespace separates
RECURSIVE HeaderTokens(_)
HeaderTokens(header) ==
  IF header = <<>> THEN <<>>
  ELSE (IF Head(header) \in WS THEN <<>> ELSE <<Head(header)>>) \o HeaderTokens(Tail(header))

\* the text opens with a bracketed header of at least two tokens
OpensWithEnvelope(s) ==
  /\ s # <<>> /\ s[1] = "[" /\ FirstClose(s) > 0
  /\ Len(HeaderTokens(SubSeq(s, 2, FirstClose(s) - 1))) >= 2

\* the prompt without its standalone message_id lines and without a leading
\* header of at least two tokens, trimmed
StrippedAsStated(prompt) ==
  LET kept == Join(FilterLines(SplitLines(prompt, <<>>)), <<"\n">>) IN
  IF OpensWithEnvelope(kept)
  THEN Trim(SubSeq(kept, FirstClose(kept) + 1, Len(kept)))
  ELSE Trim(kept)

\* C39 as stated: the search is made with the prompt less its message_id
\* lines and less a leading bracketed header of at least two tokens, a
\* header of a single token being kept, trimmed and otherwise unchanged; and
\* it is made exactly when that text has at least 5 characters.
C39_SearchTextIsStrippedPrompt ==
  (lastContext.prompt # NoText /\ StrLen(lastContext.prompt) >= 5) =>
    /\ lastContext.search # "none" =>
         lastContext.searchText = StrippedAsStated(lastContext.prompt)
    /\ lastContext.search = "none" <=> StrLen(StrippedAsStated(lastContext.prompt)) < 5

----------------------------------------------------------------------------
(* The order of the category rules *)

\* the rule classes in the order stated
RuleClasses == <<"preference", "decision", "entity", "fact">>

\* a cue of the class occurs in the text, whatever its case
CueMatches(class, text) ==
  LET lower == toLowerCase(text) IN
  CASE class = "preference" -> HasCue(lower, PreferenceCues)
    [] class = "decision" -> HasCue(lower, DecisionCues)
    [] class = "entity" ->
         HasCue(lower, EntityCues) \/ \E i \in DOMAIN lower : lower[i] \in PhoneTokens \cup HandleTokens
    [] class = "fact" -> HasCue(lower, FactCues)

MatchingClasses(text) == {i \in DOMAIN RuleClasses : CueMatches(RuleClasses[i], text)}

\* C40: detectCategory returns the first of preference, decision, entity,
\* fact that has a cue in the text, and `other` when none has: of several
\* classes with a cue, the earliest.
C40_FirstMatchingClassWins ==
  detected.pc = "done" =>
    LET m == MatchingClasses(detected.text) IN
    IF m = {} THEN detected.category = "other"
    ELSE \E i \in m : /\ detected.category = RuleClasses[i]
                      /\ \A j \in m : i <= j

\* a text with an entity cue and a fact cue was classified as entity
C40_Witness ==
  /\ detected.pc = "done" /\ detected.category = "entity"
  /\ MatchingClasses(detected.text) = {3, 4}
  /\ detected.text[1] = "is"

====
